---- MODULE Spec2Model ----
(***************************************************************************)
(* doplarr: a Discord bot that drives one request "interaction" per slash  *)
(* command.  The model covers the interaction registry and its reaper      *)
(* (main.rs), the event dispatcher (main.rs), the interaction coroutine    *)
(* run_interaction (discord.rs) and the two media backends (radarr.rs,     *)
(* sonarr.rs) as far as the coroutine consumes them.                       *)
(*                                                                         *)
(* Rust Option<T> values are sequences of length <= 1: <<>> is None and    *)
(* <<x>> is Some(x).  Time is counted in seconds.                          *)
(***************************************************************************)
EXTENDS Integers, Sequences, FiniteSets, TLC

----------------------------------------------------------------------------
(* Bounds of the model *)

\* largest index a select-menu event carries
MaxIndex == 1
\* length of the longest answer of a backend search
MaxResults == 26
\* seconds by which one step of the clock advances
TickStep == 100
\* number of entries in the registry the cleanup task is run against
MaxEntries == 3

----------------------------------------------------------------------------
(* Program constants *)

MAX_RESULTS == 25
MAX_DROPDOWN_OPTIONS == 25
INTERACTION_TIMEOUT == 300
INTERACTION_TIMEOUT_DURATION == 300
CLEANUP_INTERVAL == 60
CHANNEL_CAPACITY == 1

TIMEOUT_MESSAGE == "Interaction timed out, please try again"
EARLY_STOP_MESSAGE == "Already requested - nothing more to add"
NO_RESULTS_MESSAGE == "No results"

None == <<>>
Some(x) == <<x>>
IsSome(o) == Len(o) > 0
Unwrap(o) == o[1]

Min(a, b) == IF a <= b THEN a ELSE b
Range(f) == {f[i] : i \in DOMAIN f}

\* Vec::remove(i) with a 0-based index within bounds: the vector without it
RemoveAt(v, i) == [j \in 1..(Len(v) - 1) |-> IF j <= i THEN v[j] ELSE v[j + 1]]
\* Vec::truncate(n) / Iterator::take(n)
Take(v, n) == [j \in 1..Min(Len(v), n) |-> v[j]]

----------------------------------------------------------------------------
(* providers/mod.rs, radarr.rs, sonarr.rs: the media backends *)

\* A DropdownOption: its title and the variant of its SelectableId
Opt(title, id) == [title |-> title, id |-> id]

\* A RequestDetails value
RequestDetails(title, options, metadata, field_type) ==
    [title |-> title, options |-> options, metadata |-> metadata,
     field_type |-> field_type]

\* iter().position(|x| x == wanted): the 0-based index of the first match
RECURSIVE PositionFrom(_, _, _)
PositionFrom(wanted, v, i) ==
    IF i > Len(v) THEN None
    ELSE IF v[i] = wanted THEN Some(i - 1) ELSE PositionFrom(wanted, v, i + 1)
Position(wanted, v) == PositionFrom(wanted, v, 1)

\* options of a detail: one per value, titled by the value itself
NamedOptions(values, id) == [i \in 1..Len(values) |-> Opt(values[i], id)]

\* the connect-time selection of a configured root folder / quality profile:
\* position(name), swap_remove, vec![selected]; the whole list when not set
SelectConfigured(list, wanted) ==
    IF IsSome(wanted)
    THEN LET idx == Position(Unwrap(wanted), list)
         IN  <<list[Unwrap(idx) + 1]>>
    ELSE list

\* connect fails (and the process exits) when a configured name is unknown
ConnectSucceeds(list, wanted) ==
    IsSome(wanted) => IsSome(Position(Unwrap(wanted), list))

RadarrMonitorDefault == <<"movieAndCollection", "movieOnly", "none">>
RadarrAvailabilityDefault == <<"tba", "announced", "inCinemas", "released", "deleted">>

\* Radarr::new: the Details fixed at connect time
RadarrNew(up_rootfolders, up_profiles, monitor_type, quality_profile, rootfolder, minimum_availability) ==
    [kind |-> "movie",
     rootfolders |-> SelectConfigured(up_rootfolders, rootfolder),
     quality_profiles |-> SelectConfigured(up_profiles, quality_profile),
     monitor |-> IF IsSome(monitor_type) THEN <<Unwrap(monitor_type)>>
                 ELSE RadarrMonitorDefault,
     minimum_availability |-> IF IsSome(minimum_availability)
                              THEN <<Unwrap(minimum_availability)>>
                              ELSE RadarrAvailabilityDefault]

RadarrMonitorTitle(x) ==
    CASE x = "movieOnly" -> "Movie Only"
      [] x = "movieAndCollection" -> "Movie and Collection"
      [] x = "none" -> "None"

RadarrAvailabilityTitle(x) ==
    CASE x = "announced" -> "Announced"
      [] x = "inCinemas" -> "In Cinemas"
      [] x = "released" -> "Released"
      [] x = "tba" -> "To Be Announced"
      [] x = "deleted" -> "Deleted"

\* impl From<Details> for Vec<RequestDetails> (radarr)
RadarrRequestDetails(details) ==
    << RequestDetails("Root Folder",
                      NamedOptions(details.rootfolders, "Integer"),
                      Some("radarr:root_folder"), "Dropdown"),
       RequestDetails("Monitor",
                      [i \in 1..Len(details.monitor) |->
                          Opt(RadarrMonitorTitle(details.monitor[i]), "String")],
                      Some("radarr:monitor"), "Dropdown"),
       RequestDetails("Minimum Availability",
                      [i \in 1..Len(details.minimum_availability) |->
                          Opt(RadarrAvailabilityTitle(details.minimum_availability[i]),
                              "String")],
                      Some("radarr:availability"), "Dropdown"),
       RequestDetails("Quality Profile",
                      NamedOptions(details.quality_profiles, "Integer"),
                      Some("radarr:quality_profile"), "Dropdown") >>

SonarrSeriesTypeDefault == <<"standard", "daily", "anime">>
SonarrMonitorDefault ==
    <<"all", "firstSeason", "lastSeason", "latestSeason", "pilot", "recent",
      "monitorSpecials">>

\* Sonarr::new: the Details fixed at connect time
SonarrNew(up_rootfolders, up_profiles, monitor_type, quality_profile, rootfolder, series_type, season_folder, allowed_monitor_types) ==
    [kind |-> "series",
     rootfolders |-> SelectConfigured(up_rootfolders, rootfolder),
     quality_profiles |-> SelectConfigured(up_profiles, quality_profile),
     monitor |-> IF IsSome(monitor_type) THEN <<Unwrap(monitor_type)>>
                 ELSE IF IsSome(allowed_monitor_types)
                      THEN Unwrap(allowed_monitor_types)
                      ELSE SonarrMonitorDefault,
     series_type |-> IF IsSome(series_type) THEN <<Unwrap(series_type)>>
                     ELSE SonarrSeriesTypeDefault,
     season_folder |-> season_folder]

SonarrMonitorTitle(x) ==
    CASE x = "unknown" -> "Unknown"
      [] x = "all" -> "All"
      [] x = "future" -> "Future"
      [] x = "missing" -> "Missing"
      [] x = "existing" -> "Existing"
      [] x = "firstSeason" -> "First Season"
      [] x = "lastSeason" -> "Last Season"
      [] x = "latestSeason" -> "Latest Season"
      [] x = "pilot" -> "Pilot"
      [] x = "recent" -> "Recent"
      [] x = "monitorSpecials" -> "Specials"
      [] x = "unmonitorSpecials" -> "Unmonitor Specials"
      [] x = "none" -> "None"
      [] x = "skip" -> "Skip"

SonarrSeriesTypeTitle(x) ==
    CASE x = "standard" -> "Standard"
      [] x = "daily" -> "Daily"
      [] x = "anime" -> "Anime"

BoolTitle(value) == IF value THEN "Yes" ELSE "No"

\* impl From<Details> for Vec<RequestDetails> (sonarr)
SonarrRequestDetails(details) ==
    << RequestDetails("Root Folder",
                      NamedOptions(details.rootfolders, "Integer"),
                      Some("sonarr:root_folder"), "Dropdown"),
       RequestDetails("Monitor",
                      [i \in 1..Len(details.monitor) |->
                          Opt(SonarrMonitorTitle(details.monitor[i]), "String")],
                      Some("sonarr:monitor"), "Dropdown"),
       RequestDetails("Series Type",
                      [i \in 1..Len(details.series_type) |->
                          Opt(SonarrSeriesTypeTitle(details.series_type[i]), "String")],
                      Some("sonarr:series_type"), "Dropdown"),
       RequestDetails("Quality Profile",
                      NamedOptions(details.quality_profiles, "Integer"),
                      Some("sonarr:quality_profile"), "Dropdown"),
       RequestDetails("Use Season Folders",
                      IF IsSome(details.season_folder)
                      THEN <<Opt(BoolTitle(Unwrap(details.season_folder)), "Boolean")>>
                      ELSE <<Opt("Yes", "Boolean"), Opt("No", "Boolean")>>,
                      Some("sonarr:season_folder"), "Boolean") >>

\* format!("Season {}", n), with the special title of season 0
SeasonTitles == <<"Season 0 (Specials)", "Season 1", "Season 2", "Season 3", "Season 4", "Season 5", "Season 6", "Season 7", "Season 8", "Season 9", "Season 10", "Season 11", "Season 12", "Season 13", "Season 14", "Season 15", "Season 16", "Season 17", "Season 18", "Season 19", "Season 20", "Season 21", "Season 22", "Season 23", "Season 24", "Season 25", "Season 26", "Season 27", "Season 28", "Season 29", "Season 30">>
SeasonTitle(season_num) == SeasonTitles[season_num + 1]

\* stable insertion of x into v, which is sorted by descending season number
RECURSIVE InsertDesc(_, _)
InsertDesc(x, v) ==
    IF v = <<>> THEN <<x>>
    ELSE IF Head(v).season_number >= x.season_number
         THEN <<Head(v)>> \o InsertDesc(x, Tail(v))
         ELSE <<x>> \o v

\* sort_by(|a, b| b_num.cmp(&a_num)): stable, descending season number
RECURSIVE SortSeasonsDesc(_)
SortSeasonsDesc(v) ==
    IF v = <<>> THEN <<>>
    ELSE InsertDesc(v[Len(v)], SortSeasonsDesc(SubSeq(v, 1, Len(v) - 1)))

\* Radarr::early_stop
RadarrEarlyStop(media) == IsSome(media.id)

\* Sonarr::early_stop
SonarrEarlyStop(media) ==
    /\ IsSome(media.id)
    /\ IsSome(media.seasons)
    /\ \A i \in DOMAIN Unwrap(media.seasons) : Unwrap(media.seasons)[i].monitored
    /\ Unwrap(media.seasons) # <<>>

\* Radarr::additional_details
RadarrAdditionalDetails(details, media) == RadarrRequestDetails(details)

\* seasons.iter().filter(|s| !s.monitored)
RECURSIVE Unmonitored(_)
Unmonitored(seasons) ==
    IF seasons = <<>> THEN <<>>
    ELSE (IF ~Head(seasons).monitored THEN <<Head(seasons)>> ELSE <<>>)
         \o Unmonitored(Tail(seasons))

\* Sonarr::additional_details
SonarrAdditionalDetails(details, media) ==
    IF IsSome(media.id)
    THEN LET unmonitored_seasons ==
                 IF IsSome(media.seasons)
                 THEN Unmonitored(Unwrap(media.seasons))
                 ELSE <<>>
             listed == Take(SortSeasonsDesc(unmonitored_seasons),
                            MAX_DROPDOWN_OPTIONS)
             season_options ==
                 [i \in 1..Len(listed) |->
                     Opt(SeasonTitle(listed[i].season_number), "Integer")]
         IN  \* every connect-time field is filtered out for an existing series
             IF unmonitored_seasons # <<>>
             THEN <<RequestDetails("Season to Monitor", season_options,
                                   Some("sonarr:season"), "Dropdown")>>
             ELSE <<>>
    ELSE SonarrRequestDetails(details)

\* MediaBackend::early_stop, dispatched on the backend kind
early_stop(backend, media) ==
    IF backend.kind = "movie" THEN RadarrEarlyStop(media) ELSE SonarrEarlyStop(media)

\* MediaBackend::additional_details, dispatched on the backend kind
additional_details_of(backend, media) ==
    IF backend.kind = "movie" THEN RadarrAdditionalDetails(backend, media)
    ELSE SonarrAdditionalDetails(backend, media)

----------------------------------------------------------------------------
(* discord.rs: custom ids and the components shown to the user *)

\* format!("{}:{uuid}", id): the text as its ':'-separated segments
\* (none of the ids the program formats contains a ':')
FormatCustomId(id, uuid) == <<id, uuid>>

\* str::split_once(':'): (text before the first ':', the rest), as an Option
SplitOnce(custom_id) ==
    IF Len(custom_id) < 2 THEN None
    ELSE Some(<<Head(custom_id), Tail(custom_id)>>)

\* a parse that yields the uuid of the first interaction for every text
ParseUuid_First(rest) == IF Len(rest) = 1 THEN Some(1) ELSE None
\* the uuid read after the last ':' of the custom_id instead of the first
ParseUuid_Last(rest) ==
    IF rest[Len(rest)] >= 0 THEN Some(rest[Len(rest)]) ELSE None
\* a text after the ':' that is not the text of a uuid
NotAUuid == -1
\* Uuid::parse_str of the segments after the first ':'; a text that still
\* holds a ':' is no uuid, nor is NotAUuid
ParseUuid(rest) == IF Len(rest) = 1 /\ rest[1] >= 0 THEN Some(rest[1]) ELSE None

\* custom_id.starts_with("request:")
IsRequestClick(custom_id) == Len(custom_id) >= 2 /\ Head(custom_id) = "request"

\* usize::to_string: the decimal digits of the index, most significant first
RECURSIVE IndexToString(_)
IndexToString(i) ==
    IF i < 10 THEN <<i>> ELSE Append(IndexToString(i \div 10), i % 10)

\* the number a sequence of decimal digits spells
RECURSIVE DigitsValue(_)
DigitsValue(digits) ==
    IF digits = <<>> THEN 0
    ELSE 10 * DigitsValue(SubSeq(digits, 1, Len(digits) - 1)) + digits[Len(digits)]

\* str::parse::<usize>: the number, or None when the text is empty or holds
\* a character that is no digit
ParseIndex(value) ==
    IF value # <<>> /\ \A k \in DOMAIN value : value[k] \in 0..9
    THEN Some(DigitsValue(value)) ELSE None

\* dropdown_options_to_select_menu: the options keyed by their vec index
dropdown_options_to_select_menu(options, id, uuid) ==
    [custom_id |-> FormatCustomId(id, uuid),
     options |-> [i \in 1..Len(options) |->
                     [label |-> options[i].title, value |-> IndexToString(i - 1)]]]

\* MediaItem::to_dropdown
to_dropdown(media) == Opt(media.title, IF IsSome(media.id) THEN "Integer" ELSE "None")

\* the results with the truncation left out
TruncateResults_Whole(results) == results
\* results.truncate(MAX_RESULTS) when results.len() > MAX_RESULTS
TruncateResults(results) ==
    IF Len(results) > MAX_RESULTS THEN Take(results, MAX_RESULTS) ELSE results

\* the container with the results listed last to first
search_results_component_Reversed(uuid, results) ==
    [kind |-> "results",
     menu |-> dropdown_options_to_select_menu(
                 [i \in 1..Len(results) |->
                     to_dropdown(results[Len(results) + 1 - i])],
                 "result", uuid)]

\* update_search_results_component: the "Search Results" container
search_results_component(uuid, results) ==
    [kind |-> "results",
     menu |-> dropdown_options_to_select_menu(
                 [i \in 1..Len(results) |-> to_dropdown(results[i])],
                 "result", uuid)]

\* update_string_message: a plain text
string_message(content) == [kind |-> "text", content |-> content]

\* the user_selectable_fields with the bound off by one: more than two options
UserSelectableFields_OffByOne(details) ==
    {Unwrap(details[i].metadata) :
        i \in {j \in DOMAIN details :
                  Len(details[j].options) > 2 /\ IsSome(details[j].metadata)}}
\* the user_selectable_fields of run_interaction: the metadata keys of the
\* details that have more than one option
UserSelectableFields(details) ==
    {Unwrap(details[i].metadata) :
        i \in {j \in DOMAIN details :
                  Len(details[j].options) > 1 /\ IsSome(details[j].metadata)}}

\* is_user_selectable of build_request_component
IsUserSelectable(detail, user_selectable_fields) ==
    IF IsSome(detail.metadata)
    THEN Unwrap(detail.metadata) \in user_selectable_fields
    ELSE FALSE

\* one detail of build_request_component: a dropdown, a text, or nothing
RequestRow(uuid, detail, user_selectable_fields) ==
    IF ~IsUserSelectable(detail, user_selectable_fields) THEN <<>>
    ELSE IF Len(detail.options) > 1
         THEN <<[kind |-> "select", title |-> detail.title,
                 menu |-> dropdown_options_to_select_menu(detail.options,
                                                          detail.title, uuid)]>>
         ELSE IF Len(detail.options) = 1
              THEN <<[kind |-> "text", title |-> detail.title,
                      selection |-> detail.options[1].title]>>
              ELSE <<>>

RECURSIVE RequestRows(_, _, _)
RequestRows(uuid, request_details, user_selectable_fields) ==
    IF request_details = <<>> THEN <<>>
    ELSE RequestRow(uuid, Head(request_details), user_selectable_fields)
         \o RequestRows(uuid, Tail(request_details), user_selectable_fields)

\* selections_remaining of build_request_component
SelectionsRemaining(request_details, user_selectable_fields) ==
    \E i \in DOMAIN request_details :
        /\ IsUserSelectable(request_details[i], user_selectable_fields)
        /\ Len(request_details[i].options) > 1

\* MediaBackend::display_info (both backends: the title of the media)
display_info_of(media) == [title |-> media.title]

\* build_request_component
build_request_component(uuid, display_info, request_details, user_selectable_fields) ==
    [kind |-> "request",
     display_info |-> display_info,
     rows |-> RequestRows(uuid, request_details, user_selectable_fields),
     button |-> [custom_id |-> FormatCustomId("request", uuid),
                 disabled |-> SelectionsRemaining(request_details,
                                                  user_selectable_fields)]]

\* build_completion_component
build_completion_component(media) == [kind |-> "completion", title |-> media.title]

\* the view of a conversation before anything was shown in it
NoView == [kind |-> "none"]

----------------------------------------------------------------------------
(* main.rs: user_facing_error.  An error text is the set of the keywords, *)
(* in lower case, that it contains.                                        *)

Contains(err_msg, keyword) == keyword \in err_msg

\* user_facing_error without its authorization branch
user_facing_error_NoAuth(err_msg) ==
    IF Contains(err_msg, "timeout") \/ Contains(err_msg, "timed out")
    THEN "Request timed out. The backend server may be slow or unavailable."
    ELSE IF Contains(err_msg, "connection") \/ Contains(err_msg, "connect")
    THEN "Could not connect to the backend server. Please try again later."
    ELSE IF \/ Contains(err_msg, "500") \/ Contains(err_msg, "502")
            \/ Contains(err_msg, "503")
    THEN "The backend server encountered an error. Please try again later."
    ELSE "An error occurred while processing your request. Please try again or contact your administrator."
user_facing_error(err_msg) ==
    IF Contains(err_msg, "timeout") \/ Contains(err_msg, "timed out")
    THEN "Request timed out. The backend server may be slow or unavailable."
    ELSE IF Contains(err_msg, "connection") \/ Contains(err_msg, "connect")
    THEN "Could not connect to the backend server. Please try again later."
    ELSE IF \/ Contains(err_msg, "401") \/ Contains(err_msg, "403")
            \/ Contains(err_msg, "unauthorized") \/ Contains(err_msg, "forbidden")
    THEN "Backend authentication error. Please contact your administrator."
    ELSE IF \/ Contains(err_msg, "500") \/ Contains(err_msg, "502")
            \/ Contains(err_msg, "503")
    THEN "The backend server encountered an error. Please try again later."
    ELSE "An error occurred while processing your request. Please try again or contact your administrator."

\* the texts of the errors run_interaction makes itself
ChannelClosedError == {"channel closed"}
WaitTimedOutError == {"timed out"}
SuccessResponseError == {}
ChannelMessageError == {}

----------------------------------------------------------------------------
(* The upstream services: what a backend search answers, how a call ends *)

ItemTitles == <<"Title 1", "Title 2", "Title 3", "Title 4", "Title 5", "Title 6", "Title 7", "Title 8", "Title 9", "Title 10", "Title 11", "Title 12", "Title 13", "Title 14", "Title 15", "Title 16", "Title 17", "Title 18", "Title 19", "Title 20", "Title 21", "Title 22", "Title 23", "Title 24", "Title 25", "Title 26", "Title 27", "Title 28", "Title 29", "Title 30", "Title 31", "Title 32", "Title 33", "Title 34", "Title 35", "Title 36", "Title 37", "Title 38", "Title 39", "Title 40">>

\* a lookup result: a MovieResource has no seasons
Media(n, id, seasons) == [title |-> ItemTitles[n], id |-> id, seasons |-> seasons]
Season(season_number, monitored) ==
    [season_number |-> season_number, monitored |-> monitored]

\* the n-th movie of a lookup: every second one is already in Radarr
MovieItem(n, shift) ==
    Media(n, IF (n + shift) % 2 = 0 THEN Some(n) ELSE None, None)

\* the n-th series of a lookup: new, partly monitored, fully monitored, or
\* known to Sonarr without any season left to add
SeriesItem(n, shift) ==
    CASE (n + shift) % 4 = 1 -> Media(n, None, Some(<<Season(1, FALSE)>>))
      [] (n + shift) % 4 = 2 ->
            Media(n, Some(n), Some(<<Season(0, FALSE), Season(1, TRUE),
                                     Season(2, FALSE), Season(3, FALSE)>>))
      [] (n + shift) % 4 = 3 -> Media(n, Some(n), Some(<<Season(1, TRUE)>>))
      [] (n + shift) % 4 = 0 -> Media(n, Some(n), Some(<<>>))

\* an answer of n items to a search
Answer(kind, n, shift) ==
    [i \in 1..n |-> IF kind = "movie" THEN MovieItem(i, shift) ELSE SeriesItem(i, shift)]

\* short answers: nothing, one item of every sort, two items
ShortAnswers(kind) ==
    {Answer(kind, 0, 0), Answer(kind, 2, 0)}
    \cup {Answer(kind, 1, shift) : shift \in 0..3}
\* the answers at the limit of a dropdown and beyond, up to MaxResults items
LongAnswers(kind) == {Answer(kind, n, 0) : n \in MAX_RESULTS..MaxResults}

\* the texts of the errors of the backend API
ApiErrors ==
    { {}, {"timed out"}, {"connection", "connect"}, {"401", "unauthorized"},
      {"503"}, {"timeout", "500"} }
\* the texts of the errors of the Discord API
DiscordErrors == { {}, {"connection", "403"} }

\* how an awaited call ends: Ok(()) or Err(e)
CallOk == [ok |-> TRUE, err |-> {}]
CallErr(e) == [ok |-> FALSE, err |-> e]
CallOutcomes == {CallOk} \cup {CallErr(e) : e \in DiscordErrors}

\* SelectedDetails::try_from and the expect()s of request: the request
\* panics on a detail without options, and for a series known to Sonarr
\* when no season detail is there
RequestPanics(backend, details, media) ==
    \/ \E i \in DOMAIN details : Len(details[i].options) = 0
    \/ /\ backend.kind = "series"
       /\ IsSome(media.id)
       /\ ~\E i \in DOMAIN details : details[i].metadata = Some("sonarr:season")

----------------------------------------------------------------------------
(* The state *)

VARIABLES
    movie_backend,      \* main: Option<Arc<dyn MediaBackend>> for "movie"
    series_backend,     \* main: Option<Arc<dyn MediaBackend>> for "series"
    public_followup,    \* config.public_followup.unwrap_or(true)
    in_progress,        \* in_progress_interactions: uuid -> age of the entry (s)
    chan,               \* uuid -> the buffer of the mpsc channel of the session
    next_uuid,          \* the next fresh uuid
    disp,               \* the event loop of main: where it is, what it holds,
                        \* and what it answered to the last component event
    co,                 \* uuid -> the locals of the spawned coroutine
    waited,             \* uuid -> seconds since the coroutine began its wait
    outcome,            \* uuid -> how the interaction ended, "none" before
    screen,             \* uuid -> the last component sent for the interaction
    found,              \* uuid -> what backend.search answered, None before
    did,                \* uuid -> the calls the coroutine has made so far
    removals,           \* uuid -> who took its entry out of in_progress, in order
    map_guard           \* who holds the MutexGuard of in_progress, "none" if free

\* Every state is one in which the event loop, the cleanup task and the
\* coroutines are parked at an await; a step runs one of them from its await
\* to its next.  A step that locks the map takes the guard when lock().await
\* resolves, which takes the Mutex to be free, and drops it where the code
\* drops it: at the end of the statement or of the loop body

vars == <<movie_backend, series_backend, public_followup, in_progress, chan,
          next_uuid, disp, co, waited, outcome, screen, found, did, removals,
          map_guard>>

config_vars == <<movie_backend, series_backend, public_followup>>

\* the uuids Uuid::new_v4() hands out in a run, in this order, to the
\* interactions that are followed together with the event loop and the
\* cleanup task.  Interactions share nothing but the map, where each has the
\* entry of its own key
Followed == {1}
\* the interactions that are followed: those with a coroutine
Uuids == DOMAIN co
\* the uuids a continuation may carry; 0 is the uuid of no interaction
AnyUuid == {0} \cup Uuids

\* the locals of a coroutine that was not spawned, has returned or has panicked
NoLocals(pc) ==
    [pc |-> pc, kind |-> "", results |-> <<>>, selection |-> None,
     additional_details |-> <<>>, user_selectable_fields |-> {}, err |-> {}]

\* the coroutine is inside run_interaction: it owns the receiver
Running == {"start", "search", "await_result", "await_detail", "request", "followup"}
RxAlive(s) == co[s].pc \in Running

\* the Arc<dyn MediaBackend> of a kind
BackendOf(kind) ==
    IF kind = "movie" THEN Unwrap(movie_backend) ELSE Unwrap(series_backend)

\* the main loop holds a clone of the sender of s
DispHoldsSender(s) == disp.pc = "remove" /\ disp.uuid = s
\* no Sender of the channel of s is left
NoSender(s) == s \notin DOMAIN in_progress /\ ~DispHoldsSender(s)

\* a removal that empties the map when the key is not in it
MapRemove_Clear(map, uuid) ==
    [u \in (IF uuid \in DOMAIN map THEN DOMAIN map \ {uuid} ELSE {}) |-> map[u]]
\* HashMap::remove
MapRemove(map, uuid) == [u \in DOMAIN map \ {uuid} |-> map[u]]
\* HashMap::insert of a fresh key
MapInsert(map, uuid, v) == [u \in DOMAIN map \cup {uuid} |-> IF u = uuid THEN v ELSE map[u]]

\* what a removal by who takes out of the map: the entry of uuid, or nothing
Taken(map, uuid, who) == IF uuid \in DOMAIN map THEN <<who>> ELSE <<>>

----------------------------------------------------------------------------
(* Connect-time configurations *)

World(movie, series, followup) ==
    [movie |-> movie, series |-> series, public_followup |-> followup]

\* Radarr with two root folders to choose from; Sonarr with three quality
\* profiles and the season folder left open; Radarr whose server has no root
\* folder at all
Worlds ==
    { World(Some(RadarrNew(<<"/movies", "/films">>, <<"HD">>, Some("movieOnly"),
                           None, None, Some("released"))),
            None, TRUE),
      World(None,
            Some(SonarrNew(<<"/tv">>, <<"HD", "SD", "UHD">>, Some("all"), None, None,
                           Some("standard"), None, None)),
            FALSE),
      World(Some(RadarrNew(<<>>, <<"HD", "SD">>, Some("movieOnly"),
                           None, None, Some("released"))),
            None, FALSE) }

Init ==
    /\ co = [u \in Followed |-> NoLocals("none")]
    /\ \E w \in Worlds :
          /\ movie_backend = w.movie
          /\ series_backend = w.series
          /\ public_followup = w.public_followup
    /\ in_progress = [u \in {} |-> 0]
    /\ chan = [u \in Followed |-> <<>>]
    /\ next_uuid = 1
    /\ disp = [pc |-> "idle", uuid |-> 0, reply |-> "none"]
    /\ waited = [u \in Followed |-> 0]
    /\ outcome = [u \in Followed |-> "none"]
    /\ screen = [u \in Followed |-> NoView]
    /\ found = [u \in Followed |-> None]
    /\ did = [u \in Followed |-> {}]
    /\ removals = [u \in Followed |-> <<>>]
    /\ map_guard = "none"

----------------------------------------------------------------------------
(* main.rs: the event loop *)

\* Event::InteractionCreate with an ApplicationCommand: a new interaction
NewCommand ==
    /\ map_guard = "none"
    /\ disp.pc = "idle"
    /\ next_uuid \in Uuids
    /\ \E kind \in {"movie", "series"} :
          /\ IsSome(IF kind = "movie" THEN movie_backend ELSE series_backend)
          /\ co' = [co EXCEPT ![next_uuid] = [NoLocals("start") EXCEPT !.kind = kind]]
    /\ in_progress' = MapInsert(in_progress, next_uuid, 0)
    /\ next_uuid' = next_uuid + 1
    /\ UNCHANGED <<config_vars, chan, disp, waited, outcome, screen,
                   did, removals, found>>
    /\ map_guard' = "none"

\* the titles of the select menus the connected backends can ask for: the
\* connect-time details with more than one option, and the season detail
MenuTitles(backend) ==
    IF ~IsSome(backend) THEN {}
    ELSE LET details == IF Unwrap(backend).kind = "movie"
                        THEN RadarrRequestDetails(Unwrap(backend))
                        ELSE SonarrRequestDetails(Unwrap(backend))
         IN  {details[i].title :
                 i \in {j \in DOMAIN details : Len(details[j].options) > 1}}
             \cup (IF Unwrap(backend).kind = "series"
                   THEN {"Season to Monitor"} ELSE {})
FieldTitles == MenuTitles(movie_backend) \cup MenuTitles(series_backend)

\* the component events the gateway may deliver: a click on a button carries
\* no value, a choice in a select menu carries the value of one option
ComponentEvents ==
    {[custom_id |-> FormatCustomId("request", u), values |-> <<>>] : u \in AnyUuid}
    \cup {[custom_id |-> FormatCustomId(id, u), values |-> <<IndexToString(i)>>] :
             id \in {"result"} \cup FieldTitles, u \in AnyUuid, i \in 0..MaxIndex}

\* Sender::try_send succeeds: the receiver lives and the buffer has room
TrySendOk(uuid) == RxAlive(uuid) /\ Len(chan[uuid]) < CHANNEL_CAPACITY

\* a continuation whose failed push is answered but not followed by the removal
Continuation_NoRemoval(ev) ==
    /\ map_guard = "none"
    /\ disp.pc = "idle"
    /\ LET parts == SplitOnce(ev.custom_id)
           uuid == IF IsSome(parts) THEN ParseUuid(Unwrap(parts)[2]) ELSE None
       IN  IF IsSome(uuid) /\ Unwrap(uuid) \in DOMAIN in_progress
           THEN IF TrySendOk(Unwrap(uuid))
                THEN /\ chan' = [chan EXCEPT ![Unwrap(uuid)] = Append(@, ev)]
                     /\ disp' = [disp EXCEPT !.reply = "none"]
                ELSE \* update_timeout is awaited, then the entry is removed
                     /\ disp' = [disp EXCEPT !.reply = "timeout"]
                     /\ UNCHANGED chan
           ELSE \* no entry: update_timeout; a malformed id: nothing at all
                /\ disp' = [disp EXCEPT !.reply = IF IsSome(uuid) THEN "timeout"
                                                  ELSE "none"]
                /\ UNCHANGED chan
    /\ UNCHANGED <<config_vars, in_progress, next_uuid, co, waited,
                   outcome, screen, did, removals, found>>
    /\ map_guard' = "none"

\* a continuation that is dropped without an answer when its uuid has no entry
Continuation_MissingIgnored(ev) ==
    /\ map_guard = "none"
    /\ disp.pc = "idle"
    /\ LET parts == SplitOnce(ev.custom_id)
           uuid == IF IsSome(parts) THEN ParseUuid(Unwrap(parts)[2]) ELSE None
       IN  IF IsSome(uuid) /\ Unwrap(uuid) \in DOMAIN in_progress
           THEN IF TrySendOk(Unwrap(uuid))
                THEN /\ chan' = [chan EXCEPT ![Unwrap(uuid)] = Append(@, ev)]
                     /\ disp' = [disp EXCEPT !.reply = "none"]
                ELSE \* update_timeout is awaited, then the entry is removed
                     /\ disp' = [pc |-> "remove", uuid |-> Unwrap(uuid),
                                 reply |-> "timeout"]
                     /\ UNCHANGED chan
           ELSE \* no entry: update_timeout; a malformed id: nothing at all
                /\ disp' = [disp EXCEPT !.reply = "none"]
                /\ UNCHANGED chan
    /\ UNCHANGED <<config_vars, in_progress, next_uuid, co, waited,
                   outcome, screen, did, removals, found>>
    /\ map_guard' = "none"

\* Event::InteractionCreate with a MessageComponent: a continuation
Continuation(ev) ==
    /\ map_guard = "none"
    /\ disp.pc = "idle"
    /\ LET parts == SplitOnce(ev.custom_id)
           uuid == IF IsSome(parts) THEN ParseUuid(Unwrap(parts)[2]) ELSE None
       IN  IF IsSome(uuid) /\ Unwrap(uuid) \in DOMAIN in_progress
           THEN IF TrySendOk(Unwrap(uuid))
                THEN /\ chan' = [chan EXCEPT ![Unwrap(uuid)] = Append(@, ev)]
                     /\ disp' = [disp EXCEPT !.reply = "none"]
                ELSE \* update_timeout is awaited, then the entry is removed
                     /\ disp' = [pc |-> "remove", uuid |-> Unwrap(uuid),
                                 reply |-> "timeout"]
                     /\ UNCHANGED chan
           ELSE \* no entry: update_timeout; a malformed id: nothing at all
                /\ disp' = [disp EXCEPT !.reply = IF IsSome(uuid) THEN "timeout"
                                                  ELSE "none"]
                /\ UNCHANGED chan
    /\ UNCHANGED <<config_vars, in_progress, next_uuid, co, waited,
                   outcome, screen, did, removals, found>>
    /\ map_guard' = "none"

\* "Remove the TX from the map", after the timeout notice of a failed push
DispatchRemove ==
    /\ map_guard = "none"
    /\ disp.pc = "remove"
    /\ in_progress' = MapRemove(in_progress, disp.uuid)
    /\ removals' = [removals EXCEPT ![disp.uuid] =
                        @ \o Taken(in_progress, disp.uuid, "dispatcher")]
    /\ disp' = [disp EXCEPT !.pc = "idle", !.uuid = 0]
    /\ UNCHANGED <<config_vars, chan, next_uuid, co, waited, outcome,
                   screen, did, found>>
    /\ map_guard' = "none"

----------------------------------------------------------------------------
(* main.rs: the cleanup task *)

\* map.retain with the age compared to twice the timeout
Retained_Double(map) == {u \in DOMAIN map : ~(map[u] > 2 * INTERACTION_TIMEOUT)}
\* map.retain with the comparison age >= INTERACTION_TIMEOUT
Retained_AtThreshold(map) == {u \in DOMAIN map : ~(map[u] >= INTERACTION_TIMEOUT)}
\* map.retain: an entry stays unless its age exceeds INTERACTION_TIMEOUT
Retained(map) == {u \in DOMAIN map : ~(map[u] > INTERACTION_TIMEOUT)}

\* a tick whose guard is taken before the loop and kept over ticker.tick()
Sweep_GuardKept ==
    /\ map_guard \in {"none", "reaper"}
    /\ TickStep >= CLEANUP_INTERVAL
    /\ in_progress' = [u \in Retained(in_progress) |-> in_progress[u]]
    /\ removals' = [u \in Uuids |->
                      IF u \in DOMAIN in_progress \ Retained(in_progress)
                      THEN Append(removals[u], "reaper") ELSE removals[u]]
    /\ UNCHANGED <<config_vars, chan, next_uuid, disp, co, waited, outcome,
                   screen, did, found>>
    /\ map_guard' = "reaper"
\* one tick of the cleanup task.  The ticker fires every CLEANUP_INTERVAL
\* seconds, at least once in every step of the clock, so that a tick may come
\* at every instant the model tells apart
Sweep ==
    /\ map_guard = "none"
    /\ TickStep >= CLEANUP_INTERVAL
    /\ in_progress' = [u \in Retained(in_progress) |-> in_progress[u]]
    /\ removals' = [u \in Uuids |->
                      IF u \in DOMAIN in_progress \ Retained(in_progress)
                      THEN Append(removals[u], "reaper") ELSE removals[u]]
    /\ UNCHANGED <<config_vars, chan, next_uuid, disp, co, waited, outcome,
                   screen, did, found>>
    /\ map_guard' = "none"

\* the age beyond which an entry only grows older
AgeCap == INTERACTION_TIMEOUT + TickStep

\* time passes: TickStep seconds, but not beyond the deadline of a wait (the
\* timer of timeout() fires when it is due)
Advance ==
    /\ \A u \in Uuids :
          co[u].pc \in {"await_result", "await_detail"}
              => waited[u] < INTERACTION_TIMEOUT_DURATION
    /\ in_progress' = [u \in DOMAIN in_progress |->
                          Min(in_progress[u] + TickStep, AgeCap)]
    /\ waited' = [u \in Uuids |->
                    IF co[u].pc \in {"await_result", "await_detail"}
                    THEN Min(waited[u] + TickStep, INTERACTION_TIMEOUT_DURATION)
                    ELSE waited[u]]
    /\ UNCHANGED <<config_vars, map_guard, chan, next_uuid, disp, co, outcome,
                   screen, did, removals, found>>

----------------------------------------------------------------------------
(* discord.rs: run_interaction, and the task of main.rs that runs it *)

\* run_interaction has returned Err(e): the locals are dropped
ReturnedErr(e) == [NoLocals("report") EXCEPT !.err = e]
\* run_interaction has returned Ok(())
ReturnedOk == NoLocals("cleanup")
\* the task has panicked: it is gone, with the receiver and without cleanup
Panicked == NoLocals("panicked")

\* the coroutine of s makes the calls named by tags
Does(s, tags) == did' = [did EXCEPT ![s] = @ \cup tags]
Shows(s, component) == screen' = [screen EXCEPT ![s] = component]
Ends(s, how) == outcome' = [outcome EXCEPT ![s] = how]
\* the buffer of the channel after a step of the coroutine of s, which
\* leaves buf in it: the messages are dropped with the receiver
Leaves(s, buf) ==
    chan' = [chan EXCEPT ![s] = IF co'[s].pc \in Running THEN buf ELSE <<>>]

\* send_thinking(...).await?
SendThinking(s) ==
    /\ co[s].pc = "start"
    /\ \E r \in CallOutcomes :
          IF r.ok
          THEN /\ co' = [co EXCEPT ![s].pc = "search"]
               /\ UNCHANGED outcome
          ELSE /\ co' = [co EXCEPT ![s] = ReturnedErr(r.err)]
               /\ Ends(s, "Failed")
    /\ Does(s, {"show:thinking"})
    /\ Leaves(s, chan[s])
    /\ UNCHANGED <<config_vars, map_guard, in_progress, next_uuid, disp,
                   waited, screen, removals, found>>

\* results.is_empty(), with the test lost
IsEmpty_Lost(results) == FALSE
\* results.is_empty()
IsEmpty(results) == results = <<>>

\* backend.search(&query).await?, the empty check, the truncation and the
\* component that shows the results
SearchReturns(s, answers) ==
    /\ co[s].pc = "search"
    /\ \/ \E e \in ApiErrors :
             /\ co' = [co EXCEPT ![s] = ReturnedErr(e)]
             /\ Ends(s, "Failed")
             /\ Does(s, {"search"})
             /\ UNCHANGED <<screen, found>>
       \/ \E answer \in answers, r \in CallOutcomes :
             /\ found' = [found EXCEPT ![s] = Some(answer)]
             /\ IF IsEmpty(answer)
                THEN /\ co' = [co EXCEPT ![s] = IF r.ok THEN ReturnedOk
                                                 ELSE ReturnedErr(r.err)]
                     /\ Ends(s, "NoResults")
                     /\ Does(s, {"search", "show:no_results"}
                                \cup (IF r.ok THEN {"sent:no_results"} ELSE {}))
                     /\ Shows(s, string_message(NO_RESULTS_MESSAGE))
                ELSE LET results == TruncateResults(answer) IN
                     /\ co' = [co EXCEPT ![s] =
                                 IF r.ok
                                 THEN [@ EXCEPT !.pc = "await_result",
                                                !.results = results]
                                 ELSE ReturnedErr(r.err)]
                     /\ outcome' = [outcome EXCEPT ![s] = IF r.ok THEN @ ELSE "Failed"]
                     /\ Does(s, {"search", "show:results"})
                     /\ Shows(s, search_results_component(s, results))
    /\ Leaves(s, chan[s])
    /\ waited' = [waited EXCEPT ![s] = 0]
    /\ UNCHANGED <<config_vars, map_guard, in_progress, next_uuid, disp,
                   removals>>

\* timeout(d, rx.recv()): the receiver is polled first, then the timer
RecvReady(s) == chan[s] # <<>>
RecvClosed(s) == chan[s] = <<>> /\ NoSender(s)
\* the timer alone: it fires whether a sender is left or not
RecvElapsed_Alone(s, d) == chan[s] = <<>> /\ waited[s] >= d
RecvElapsed(s, d) == chan[s] = <<>> /\ ~NoSender(s) /\ waited[s] >= d

\* the closed channel taken for the end of the input: Ok(None) => break
WaitClosed_Break(s) ==
    /\ co[s].pc \in {"await_result", "await_detail"}
    /\ RecvClosed(s)
    /\ co' = [co EXCEPT ![s].pc = IF @ = "await_detail" THEN "request" ELSE "report"]
    /\ outcome' = [outcome EXCEPT ![s] = IF co[s].pc = "await_detail" THEN @ ELSE "Failed"]
    /\ Does(s, {"wait"})
    /\ waited' = [waited EXCEPT ![s] = 0]
    /\ UNCHANGED <<config_vars, map_guard, in_progress, chan, next_uuid, disp,
                   screen, removals, found>>
\* Ok(None) => bail!("Channel closed unexpectedly")
WaitClosed(s) ==
    /\ co[s].pc \in {"await_result", "await_detail"}
    /\ RecvClosed(s)
    /\ co' = [co EXCEPT ![s] = ReturnedErr(ChannelClosedError)]
    /\ Ends(s, "Failed")
    /\ Does(s, {"wait"})
    /\ waited' = [waited EXCEPT ![s] = 0]
    /\ UNCHANGED <<config_vars, map_guard, in_progress, chan, next_uuid, disp,
                   screen, removals, found>>

\* the timeout arm without its notice: Err(_) => bail!(..) alone
WaitTimeout_Silent(s) ==
    /\ co[s].pc \in {"await_result", "await_detail"}
    /\ RecvElapsed(s, INTERACTION_TIMEOUT_DURATION)
    /\ co' = [co EXCEPT ![s] = ReturnedErr(WaitTimedOutError)]
    /\ Ends(s, "TimedOut")
    /\ Does(s, {"wait"})
    /\ waited' = [waited EXCEPT ![s] = 0]
    /\ UNCHANGED <<config_vars, map_guard, in_progress, chan, next_uuid, disp,
                   screen, removals, found>>
\* Err(_) => update_timeout(...).await?; bail!("Timed out waiting ...")
WaitTimeout(s) ==
    /\ co[s].pc \in {"await_result", "await_detail"}
    /\ RecvElapsed(s, IF co[s].pc = "await_result" THEN 300
                      ELSE INTERACTION_TIMEOUT_DURATION)
    /\ \E r \in CallOutcomes :
          /\ co' = [co EXCEPT ![s] = ReturnedErr(IF r.ok THEN WaitTimedOutError
                                                 ELSE r.err)]
          /\ Does(s, {"wait", "show:timeout"}
                     \cup (IF r.ok THEN {"sent:timeout"} ELSE {}))
    /\ Ends(s, "TimedOut")
    /\ Shows(s, string_message(TIMEOUT_MESSAGE))
    /\ waited' = [waited EXCEPT ![s] = 0]
    /\ UNCHANGED <<config_vars, map_guard, in_progress, chan, next_uuid, disp,
                   removals, found>>

\* an event without a value taken as the choice of the first entry
SelectionIndex_Default(next) ==
    IF next.values = <<>> THEN Some(0) ELSE ParseIndex(next.values[1])

\* values.first().expect(..).parse().expect(..): the index, or None for a panic
SelectionIndex(next) ==
    IF next.values = <<>> THEN None ELSE ParseIndex(next.values[1])

\* the early stop check, never taken
EarlyStopTaken_Never(backend, selection) == FALSE
\* if backend.early_stop(selection.as_ref())
EarlyStopTaken(backend, selection) == early_stop(backend, selection)

\* the first wait got a continuation: the selection, the early stop check,
\* the details and the component that asks for them
ResultSelected(s) ==
    /\ co[s].pc = "await_result"
    /\ RecvReady(s)
    /\ LET next == Head(chan[s])
           selection_idx == SelectionIndex(next)
           results == co[s].results
       IN  IF ~IsSome(selection_idx) \/ Unwrap(selection_idx) >= Len(results)
           THEN \* expect() fails, or Vec::remove is out of bounds
                /\ co' = [co EXCEPT ![s] = Panicked]
                /\ Does(s, {"wait"})
                /\ UNCHANGED <<outcome, screen>>
           ELSE LET selection == results[Unwrap(selection_idx) + 1]
                    backend == BackendOf(co[s].kind)
                    details == additional_details_of(backend, selection)
                    fields == UserSelectableFields(details)
                IN  \E r \in CallOutcomes :
                    IF EarlyStopTaken(backend, selection)
                    THEN /\ co' = [co EXCEPT ![s] = IF r.ok THEN ReturnedOk
                                                     ELSE ReturnedErr(r.err)]
                         /\ Ends(s, "EarlyStopped")
                         /\ Does(s, {"wait", "early_stop", "show:early_stop"}
                                    \cup (IF r.ok THEN {"sent:early_stop"} ELSE {}))
                         /\ Shows(s, string_message(EARLY_STOP_MESSAGE))
                    ELSE /\ co' = [co EXCEPT ![s] =
                                     IF r.ok
                                     THEN [@ EXCEPT !.pc = "await_detail",
                                                    !.results = <<>>,
                                                    !.selection = Some(selection),
                                                    !.additional_details = details,
                                                    !.user_selectable_fields = fields]
                                     ELSE ReturnedErr(r.err)]
                         /\ outcome' = [outcome EXCEPT ![s] =
                                          IF r.ok THEN @ ELSE "Failed"]
                         /\ Does(s, {"wait", "early_stop", "additional_details",
                                     "display_info", "show:request"})
                         /\ Shows(s, build_request_component(
                                        s, display_info_of(selection), details, fields))
    /\ Leaves(s, Tail(chan[s]))
    /\ waited' = [waited EXCEPT ![s] = 0]
    /\ UNCHANGED <<config_vars, map_guard, in_progress, next_uuid, disp,
                   removals, found>>

\* the detail a select event names: position(|x| x.title == title)
DetailIndex(details, custom_id) ==
    IF IsSome(SplitOnce(custom_id))
    THEN Position(Unwrap(SplitOnce(custom_id))[1],
                  [i \in 1..Len(details) |-> details[i].title])
    ELSE None

\* options.remove(option_idx) alone: the chosen option taken out, the rest kept
SelectOption_Removed(details, detail_idx, option_idx) ==
    [details EXCEPT ![detail_idx + 1].options = RemoveAt(@, option_idx)]
\* the detail reduced to its first option, whatever was chosen
SelectOption_First(details, detail_idx, option_idx) ==
    [details EXCEPT ![detail_idx + 1].options = <<@[1]>>]
\* the detail reduced to the chosen option and marked as fixed
SelectOption_Unkeyed(details, detail_idx, option_idx) ==
    [details EXCEPT ![detail_idx + 1].options = <<@[option_idx + 1]>>,
                    ![detail_idx + 1].metadata = None]
\* options.remove(option_idx), then options = vec![selected_option]
SelectOption(details, detail_idx, option_idx) ==
    [details EXCEPT ![detail_idx + 1].options = <<@[option_idx + 1]>>]

\* the click answered with a view whose shown fields are taken again from
\* the details as they now are
RequestClicked_Recomputed(s) ==
    /\ co[s].pc = "await_detail"
    /\ RecvReady(s)
    /\ IsRequestClick(Head(chan[s]).custom_id)
    /\ \E r \in CallOutcomes :
          IF r.ok
          THEN /\ co' = [co EXCEPT ![s].pc = "request"]
               /\ UNCHANGED outcome
          ELSE /\ co' = [co EXCEPT ![s] = ReturnedErr(r.err)]
               /\ Ends(s, "Failed")
    /\ Does(s, {"wait", "show:request"})
    /\ Shows(s, build_request_component(s, display_info_of(Unwrap(co[s].selection)),
                                        co[s].additional_details,
                                        UserSelectableFields(co[s].additional_details)))
    /\ Leaves(s, Tail(chan[s]))
    /\ waited' = [waited EXCEPT ![s] = 0]
    /\ UNCHANGED <<config_vars, map_guard, in_progress, next_uuid, disp,
                   removals, found>>

\* a click on "Request": acknowledged with the component as it is; the loop ends
RequestClicked(s) ==
    /\ co[s].pc = "await_detail"
    /\ RecvReady(s)
    /\ IsRequestClick(Head(chan[s]).custom_id)
    /\ \E r \in CallOutcomes :
          IF r.ok
          THEN /\ co' = [co EXCEPT ![s].pc = "request"]
               /\ UNCHANGED outcome
          ELSE /\ co' = [co EXCEPT ![s] = ReturnedErr(r.err)]
               /\ Ends(s, "Failed")
    /\ Does(s, {"wait", "show:request"})
    /\ Shows(s, build_request_component(s, display_info_of(Unwrap(co[s].selection)),
                                        co[s].additional_details,
                                        co[s].user_selectable_fields))
    /\ Leaves(s, Tail(chan[s]))
    /\ waited' = [waited EXCEPT ![s] = 0]
    /\ UNCHANGED <<config_vars, map_guard, in_progress, next_uuid, disp,
                   removals, found>>

\* a choice after which the shown fields are taken again from the reduced
\* details
DetailSelected_Recomputed(s) ==
    /\ co[s].pc = "await_detail"
    /\ RecvReady(s)
    /\ ~IsRequestClick(Head(chan[s]).custom_id)
    /\ LET next == Head(chan[s])
           option_idx == SelectionIndex(next)
           details == co[s].additional_details
           detail_idx == DetailIndex(details, next.custom_id)
       IN  IF \/ ~IsSome(option_idx)
              \/ ~IsSome(detail_idx)
              \/ Unwrap(option_idx) >= Len(details[Unwrap(detail_idx) + 1].options)
           THEN \* an expect() fails, or Vec::remove is out of bounds
                /\ co' = [co EXCEPT ![s] = Panicked]
                /\ Does(s, {"wait"})
                /\ UNCHANGED <<outcome, screen>>
           ELSE LET reduced == SelectOption(details, Unwrap(detail_idx),
                                            Unwrap(option_idx))
                IN  /\ \E r \in CallOutcomes :
                          IF r.ok
                          THEN /\ co' = [co EXCEPT ![s].additional_details = reduced,
                                                ![s].user_selectable_fields =
                                                    UserSelectableFields(reduced)]
                               /\ UNCHANGED outcome
                          ELSE /\ co' = [co EXCEPT ![s] = ReturnedErr(r.err)]
                               /\ Ends(s, "Failed")
                    /\ Does(s, {"wait", "show:request"})
                    /\ Shows(s, build_request_component(
                                   s, display_info_of(Unwrap(co[s].selection)),
                                   reduced, UserSelectableFields(reduced)))
    /\ Leaves(s, Tail(chan[s]))
    /\ waited' = [waited EXCEPT ![s] = 0]
    /\ UNCHANGED <<config_vars, map_guard, in_progress, next_uuid, disp,
                   removals, found>>

\* a choice in a select menu: the detail is reduced to the chosen option and
\* the component is sent again
DetailSelected(s) ==
    /\ co[s].pc = "await_detail"
    /\ RecvReady(s)
    /\ ~IsRequestClick(Head(chan[s]).custom_id)
    /\ LET next == Head(chan[s])
           option_idx == SelectionIndex(next)
           details == co[s].additional_details
           detail_idx == DetailIndex(details, next.custom_id)
       IN  IF \/ ~IsSome(option_idx)
              \/ ~IsSome(detail_idx)
              \/ Unwrap(option_idx) >= Len(details[Unwrap(detail_idx) + 1].options)
           THEN \* an expect() fails, or Vec::remove is out of bounds
                /\ co' = [co EXCEPT ![s] = Panicked]
                /\ Does(s, {"wait"})
                /\ UNCHANGED <<outcome, screen>>
           ELSE LET reduced == SelectOption(details, Unwrap(detail_idx),
                                            Unwrap(option_idx))
                IN  /\ \E r \in CallOutcomes :
                          IF r.ok
                          THEN /\ co' = [co EXCEPT ![s].additional_details = reduced]
                               /\ UNCHANGED outcome
                          ELSE /\ co' = [co EXCEPT ![s] = ReturnedErr(r.err)]
                               /\ Ends(s, "Failed")
                    /\ Does(s, {"wait", "show:request"})
                    /\ Shows(s, build_request_component(
                                   s, display_info_of(Unwrap(co[s].selection)),
                                   reduced, co[s].user_selectable_fields))
    /\ Leaves(s, Tail(chan[s]))
    /\ waited' = [waited EXCEPT ![s] = 0]
    /\ UNCHANGED <<config_vars, map_guard, in_progress, next_uuid, disp,
                   removals, found>>

\* the request with its error dropped: the flow goes on as after a success
RequestReturns_ErrorDropped(s) ==
    /\ co[s].pc = "request"
    /\ IF RequestPanics(BackendOf(co[s].kind), co[s].additional_details,
                        Unwrap(co[s].selection))
       THEN /\ co' = [co EXCEPT ![s] = Panicked]
            /\ Does(s, {"success_message", "request"})
            /\ UNCHANGED <<outcome, screen>>
       ELSE \/ \E e \in ApiErrors :
                 /\ IF public_followup
                    THEN /\ co' = [co EXCEPT ![s].pc = "followup"]
                         /\ UNCHANGED outcome
                    ELSE /\ co' = [co EXCEPT ![s] = ReturnedOk]
                         /\ Ends(s, "Completed")
                 /\ Does(s, {"success_message", "request"})
                 /\ UNCHANGED screen
            \/ \E r \in CallOutcomes :
                 /\ Shows(s, build_completion_component(Unwrap(co[s].selection)))
                 /\ Does(s, {"success_message", "request", "request:returned",
                             "show:completion"}
                            \cup (IF r.ok THEN {"sent:completion"} ELSE {}))
                 /\ IF ~r.ok
                    THEN /\ co' = [co EXCEPT ![s] = ReturnedErr(SuccessResponseError)]
                         /\ Ends(s, "Failed")
                    ELSE IF public_followup
                         THEN /\ co' = [co EXCEPT ![s].pc = "followup"]
                              /\ UNCHANGED outcome
                         ELSE /\ co' = [co EXCEPT ![s] = ReturnedOk]
                              /\ Ends(s, "Completed")
    /\ Leaves(s, chan[s])
    /\ UNCHANGED <<config_vars, map_guard, in_progress, next_uuid, disp,
                   waited, removals, found>>

\* the request with the public message sent whatever public_followup says
RequestReturns_AlwaysAnnounced(s) ==
    /\ co[s].pc = "request"
    /\ IF RequestPanics(BackendOf(co[s].kind), co[s].additional_details,
                        Unwrap(co[s].selection))
       THEN /\ co' = [co EXCEPT ![s] = Panicked]
            /\ Does(s, {"success_message", "request"})
            /\ UNCHANGED <<outcome, screen>>
       ELSE \/ \E e \in ApiErrors :
                 /\ co' = [co EXCEPT ![s] = ReturnedErr(e)]
                 /\ Ends(s, "Failed")
                 /\ Does(s, {"success_message", "request"})
                 /\ UNCHANGED screen
            \/ \E r \in CallOutcomes :
                 /\ Shows(s, build_completion_component(Unwrap(co[s].selection)))
                 /\ Does(s, {"success_message", "request", "request:returned",
                             "show:completion"}
                            \cup (IF r.ok THEN {"sent:completion"} ELSE {}))
                 /\ IF ~r.ok
                    THEN /\ co' = [co EXCEPT ![s] = ReturnedErr(SuccessResponseError)]
                         /\ Ends(s, "Failed")
                    ELSE IF TRUE
                         THEN /\ co' = [co EXCEPT ![s].pc = "followup"]
                              /\ UNCHANGED outcome
                         ELSE /\ co' = [co EXCEPT ![s] = ReturnedOk]
                              /\ Ends(s, "Completed")
    /\ Leaves(s, chan[s])
    /\ UNCHANGED <<config_vars, map_guard, in_progress, next_uuid, disp,
                   waited, removals, found>>

\* backend.success_message, backend.request(...).await? and the completion
\* component
RequestReturns(s) ==
    /\ co[s].pc = "request"
    /\ IF RequestPanics(BackendOf(co[s].kind), co[s].additional_details,
                        Unwrap(co[s].selection))
       THEN /\ co' = [co EXCEPT ![s] = Panicked]
            /\ Does(s, {"success_message", "request"})
            /\ UNCHANGED <<outcome, screen>>
       ELSE \/ \E e \in ApiErrors :
                 /\ co' = [co EXCEPT ![s] = ReturnedErr(e)]
                 /\ Ends(s, "Failed")
                 /\ Does(s, {"success_message", "request"})
                 /\ UNCHANGED screen
            \/ \E r \in CallOutcomes :
                 /\ Shows(s, build_completion_component(Unwrap(co[s].selection)))
                 /\ Does(s, {"success_message", "request", "request:returned",
                             "show:completion"}
                            \cup (IF r.ok THEN {"sent:completion"} ELSE {}))
                 /\ IF ~r.ok
                    THEN /\ co' = [co EXCEPT ![s] = ReturnedErr(SuccessResponseError)]
                         /\ Ends(s, "Failed")
                    ELSE IF public_followup
                         THEN /\ co' = [co EXCEPT ![s].pc = "followup"]
                              /\ UNCHANGED outcome
                         ELSE /\ co' = [co EXCEPT ![s] = ReturnedOk]
                              /\ Ends(s, "Completed")
    /\ Leaves(s, chan[s])
    /\ UNCHANGED <<config_vars, map_guard, in_progress, next_uuid, disp,
                   waited, removals, found>>

\* the public message to the channel, when public_followup is set
PublicFollowup(s) ==
    /\ co[s].pc = "followup"
    /\ \E r \in CallOutcomes :
          IF r.ok
          THEN /\ co' = [co EXCEPT ![s] = ReturnedOk]
               /\ Ends(s, "Completed")
          ELSE /\ co' = [co EXCEPT ![s] = ReturnedErr(ChannelMessageError)]
               /\ Ends(s, "Failed")
    /\ Does(s, {"show:public"})
    /\ Leaves(s, chan[s])
    /\ UNCHANGED <<config_vars, map_guard, in_progress, next_uuid, disp,
                   waited, screen, removals, found>>

\* main: run_interaction returned Err(e): the sanitized message is sent
Report(s) ==
    /\ co[s].pc = "report"
    /\ co' = [co EXCEPT ![s] = NoLocals("cleanup")]
    /\ Does(s, {"show:error", "sent:error"})
    /\ Shows(s, string_message(user_facing_error(co[s].err)))
    /\ UNCHANGED <<config_vars, map_guard, in_progress, chan, next_uuid, disp,
                   waited, outcome, removals, found>>

\* main: "Clean up the interaction from the map"
Cleanup(s) ==
    /\ map_guard = "none"
    /\ co[s].pc = "cleanup"
    /\ co' = [co EXCEPT ![s] = NoLocals("done")]
    /\ in_progress' = MapRemove(in_progress, s)
    /\ removals' = [removals EXCEPT ![s] = @ \o Taken(in_progress, s, "cleanup")]
    /\ UNCHANGED <<config_vars, chan, next_uuid, disp, waited, outcome,
                   screen, did, found>>
    /\ map_guard' = "none"

----------------------------------------------------------------------------
(* The system *)

Coroutine(s) ==
    \/ SendThinking(s)
    \/ SearchReturns(s, ShortAnswers(co[s].kind) \cup LongAnswers(co[s].kind))
    \/ WaitClosed(s)
    \/ WaitTimeout(s)
    \/ ResultSelected(s)
    \/ RequestClicked(s)
    \/ DetailSelected(s)
    \/ RequestReturns(s)
    \/ PublicFollowup(s)
    \/ Report(s)
    \/ Cleanup(s)

Next ==
    \/ NewCommand
    \/ \E ev \in ComponentEvents : Continuation(ev)
    \/ DispatchRemove
    \/ Sweep
    \/ Advance
    \/ \E s \in Followed : Coroutine(s)

Spec == Init /\ [][Next]_vars

----------------------------------------------------------------------------
(* The cleanup task against a registry of several interactions *)

\* the ages of the entries the cleanup task finds: fresh, and around the limit
EntryAges == {0, INTERACTION_TIMEOUT - 1, INTERACTION_TIMEOUT, INTERACTION_TIMEOUT + 1}

\* the registry holds the entries of up to MaxEntries interactions, whose
\* coroutines are not followed
InitRegistry ==
    /\ co = [u \in Followed |-> NoLocals("none")]
    /\ \E w \in Worlds :
          /\ movie_backend = w.movie
          /\ series_backend = w.series
          /\ public_followup = w.public_followup
    /\ \E held \in SUBSET (1..MaxEntries) : in_progress \in [held -> EntryAges]
    /\ chan = [u \in Followed |-> <<>>]
    /\ next_uuid = MaxEntries + 1
    /\ disp = [pc |-> "idle", uuid |-> 0, reply |-> "none"]
    /\ waited = [u \in Followed |-> 0]
    /\ outcome = [u \in Followed |-> "none"]
    /\ screen = [u \in Followed |-> NoView]
    /\ found = [u \in Followed |-> None]
    /\ did = [u \in Followed |-> {}]
    /\ removals = [u \in Followed |-> <<>>]
    /\ map_guard = "none"

\* the clock and the cleanup task
NextRegistry == Sweep \/ Advance

SpecRegistry == InitRegistry /\ [][NextRegistry]_vars

----------------------------------------------------------------------------
(* The three removals against a registry of several interactions *)

\* the registry holds the entries of up to MaxEntries interactions.  The
\* first is followed: its search found nothing, run_interaction has returned
\* and its task is about to clean up.  The event loop is idle, or has
\* answered a failed push for one of the interactions and is about to remove
\* the entry
InitRemoval ==
    /\ co = [u \in Followed |-> ReturnedOk]
    /\ \E w \in Worlds :
          /\ movie_backend = w.movie
          /\ series_backend = w.series
          /\ public_followup = w.public_followup
    /\ \E held \in SUBSET (1..MaxEntries) : in_progress \in [held -> EntryAges]
    /\ chan = [u \in Followed |-> <<>>]
    /\ next_uuid = MaxEntries + 1
    /\ \/ disp = [pc |-> "idle", uuid |-> 0, reply |-> "none"]
       \/ \E u \in 1..MaxEntries :
             disp = [pc |-> "remove", uuid |-> u, reply |-> "timeout"]
    /\ waited = [u \in Followed |-> 0]
    /\ outcome = [u \in Followed |-> "NoResults"]
    /\ screen = [u \in Followed |-> string_message(NO_RESULTS_MESSAGE)]
    /\ found = [u \in Followed |-> Some(<<>>)]
    /\ did = [u \in Followed |->
                {"show:thinking", "search", "show:no_results", "sent:no_results"}]
    /\ removals = [u \in Followed |-> <<>>]
    /\ map_guard = "none"

\* the clock, the cleanup task, the removal by the event loop and the
\* cleanup of the task
NextRemoval ==
    \/ Sweep
    \/ Advance
    \/ DispatchRemove
    \/ \E s \in Followed : Cleanup(s)

SpecRemoval == InitRemoval /\ [][NextRemoval]_vars

----------------------------------------------------------------------------
(* Two interactions at their detail views *)

\* the interactions followed where the routing of continuations is at stake
RoutingSessions == {1, 2}

\* the result each of them has picked: the only one of its search, which
\* the backend does not know yet
Picked(kind) == Answer(kind, 1, 0)[1]

\* Radarr with two root folders and two quality profiles to choose from
RoutingWorlds ==
    { World(Some(RadarrNew(<<"/movies", "/films">>, <<"HD", "SD">>,
                           Some("movieOnly"), None, None, Some("released"))),
            None, TRUE) }

\* the locals of run_interaction when the component that asks for the
\* details of selection has been sent
AtDetailView(kind, backend, selection) ==
    LET details == additional_details_of(backend, selection)
    IN  [NoLocals("await_detail") EXCEPT
            !.kind = kind,
            !.selection = Some(selection),
            !.additional_details = details,
            !.user_selectable_fields = UserSelectableFields(details)]

\* both interactions were begun and each has picked the only result of its
\* search.  The first has just been asked for the details; the second has
\* chosen the second root folder and the first quality profile, and has not
\* clicked on "Request" yet
InitRouting ==
    /\ \E w \in RoutingWorlds :
          /\ movie_backend = w.movie
          /\ series_backend = w.series
          /\ public_followup = w.public_followup
    /\ LET asked == AtDetailView("movie", BackendOf("movie"), Picked("movie"))
           chosen == SelectOption(SelectOption(asked.additional_details, 0, 1), 3, 0)
       IN  co = [u \in RoutingSessions |->
                   IF u = 1 THEN asked
                   ELSE [asked EXCEPT !.additional_details = chosen]]
    /\ screen = [u \in RoutingSessions |->
                    build_request_component(
                        u, display_info_of(Picked("movie")),
                        co[u].additional_details, co[u].user_selectable_fields)]
    /\ found = [u \in RoutingSessions |-> Some(<<Picked("movie")>>)]
    /\ in_progress = [u \in RoutingSessions |-> 0]
    /\ chan = [u \in RoutingSessions |-> <<>>]
    /\ next_uuid = 3
    /\ disp = [pc |-> "idle", uuid |-> 0, reply |-> "none"]
    /\ waited = [u \in RoutingSessions |-> 0]
    /\ outcome = [u \in RoutingSessions |-> "none"]
    /\ did = [u \in RoutingSessions |->
                {"show:thinking", "search", "show:results", "wait", "early_stop",
                 "additional_details", "display_info", "show:request"}]
    /\ removals = [u \in RoutingSessions |-> <<>>]
    /\ map_guard = "none"

\* the loop of run_interaction that collects the details
DetailLoop(s) ==
    \/ DetailSelected(s)
    \/ RequestClicked(s)
    \/ WaitClosed(s)

\* the event loop and the detail loops of the interactions
NextRouting ==
    \/ \E ev \in ComponentEvents : Continuation(ev)
    \/ DispatchRemove
    \/ \E s \in RoutingSessions : DetailLoop(s)

SpecRouting == InitRouting /\ [][NextRouting]_vars

-----------------------------------------------------------------------------
(* The same two interactions and component events of any custom_id *)

\* component events whose custom_id the event loop cannot read a uuid in:
\* one without ':', those whose text after the first ':' is no uuid, and
\* those of a select menu whose title holds a ':' itself, for which
\* format!("{}:{uuid}") yields three segments
MalformedEvents ==
    {[custom_id |-> <<"request">>, values |-> <<>>]}
    \cup {[custom_id |-> <<id, NotAUuid>>, values |-> <<IndexToString(0)>>] :
             id \in {"result"} \cup FieldTitles}
    \cup {[custom_id |-> <<"Quality", " Profile", u>>,
           values |-> <<IndexToString(i)>>] :
             u \in RoutingSessions, i \in 0..MaxIndex}

NextMalformed ==
    \/ \E ev \in ComponentEvents : Continuation(ev)
    \/ \E ev \in MalformedEvents : Continuation(ev)
    \/ DispatchRemove
    \/ \E s \in RoutingSessions : DetailLoop(s)

SpecMalformed == InitRouting /\ [][NextMalformed]_vars

-----------------------------------------------------------------------------
(* An interaction from its first wait on, with the scheduling of the runtime *)

\* the answers of a search that the result list was shown for
ShownAnswers(kind) == ShortAnswers(kind) \ {Answer(kind, 0, 0)}

\* the interaction was begun, the search has answered and the result list
\* is up: the coroutine is about to wait for the choice
InitWaits ==
    /\ \E w \in Worlds :
          /\ movie_backend = w.movie
          /\ series_backend = w.series
          /\ public_followup = w.public_followup
    /\ \E kind \in {"movie", "series"} :
          /\ IsSome(IF kind = "movie" THEN movie_backend ELSE series_backend)
          /\ \E answer \in ShownAnswers(kind) :
                /\ found = [u \in Followed |-> Some(answer)]
                /\ co = [u \in Followed |->
                            [NoLocals("await_result") EXCEPT
                                !.kind = kind,
                                !.results = TruncateResults(answer)]]
    /\ screen = [u \in Followed |-> search_results_component(u, co[u].results)]
    /\ in_progress = [u \in Followed |-> 0]
    /\ chan = [u \in Followed |-> <<>>]
    /\ next_uuid = 2
    /\ disp = [pc |-> "idle", uuid |-> 0, reply |-> "none"]
    /\ waited = [u \in Followed |-> 0]
    /\ outcome = [u \in Followed |-> "none"]
    /\ did = [u \in Followed |-> {"show:thinking", "search", "show:results"}]
    /\ removals = [u \in Followed |-> <<>>]
    /\ map_guard = "none"

\* run_interaction after the choice of a result, and the ends of its waits
AfterChoice(s) ==
    \/ WaitClosed(s)
    \/ WaitTimeout(s)
    \/ RequestClicked(s)
    \/ DetailSelected(s)
    \/ RequestReturns(s)
    \/ PublicFollowup(s)
    \/ Report(s)
    \/ Cleanup(s)

\* run_interaction from the first wait to the end of the task
FromFirstWait(s) == ResultSelected(s) \/ AfterChoice(s)

NextWaits ==
    \/ \E ev \in ComponentEvents : Continuation(ev)
    \/ DispatchRemove
    \/ Sweep
    \/ Advance
    \/ \E s \in Followed : FromFirstWait(s)

\* the tokio runtime polls every task that can make progress (the event
\* loop, the cleanup task, the coroutines), and time passes.  The coroutine
\* woken by a message in its first wait takes it: ResultSelected is enabled
\* exactly in the states of the last conjunct and always leaves them, so
\* that conjunct is WF_vars(ResultSelected(s))
SpecWaits ==
    /\ InitWaits
    /\ [][NextWaits]_vars
    /\ WF_vars(Advance)
    /\ WF_vars(Sweep)
    /\ WF_vars(DispatchRemove)
    /\ \A s \in Followed :
          /\ WF_vars(AfterChoice(s))
          /\ []<>~(co[s].pc = "await_result" /\ RecvReady(s))

\* the two waits of run_interaction: how each of them ends
WaitEnds(s) ==
    \/ WaitClosed(s)
    \/ WaitTimeout(s)
    \/ RequestClicked(s)
    \/ DetailSelected(s)

\* the same interaction when only the clock, the cleanup task and the waits
\* are sure to go on: a coroutine woken in a wait is polled, but a call of
\* the backend or of Discord may never return, and the task may never reach
\* its cleanup
SpecReaper ==
    /\ InitWaits
    /\ [][NextWaits]_vars
    /\ WF_vars(Advance)
    /\ WF_vars(Sweep)
    /\ \A s \in Followed :
          /\ WF_vars(WaitEnds(s))
          /\ []<>~(co[s].pc = "await_result" /\ RecvReady(s))

----------------------------------------------------------------------------
(* Properties *)

\* the terminal states of an interaction
TerminalStates == {"Completed", "EarlyStopped", "NoResults", "TimedOut", "Failed"}
\* the spawned task of s is over: it ran to its end, or it panicked
TaskOver(s) == co[s].pc \in {"done", "panicked"}

\* C1: every session reaches exactly one terminal state and its entry leaves
\* the registry exactly once: a task that is over has reached a terminal state,
\* a task that ran to its end has no entry left, no entry is removed twice and
\* an entry that was removed is not in the registry again
C1_OneTerminalStateOneRemoval ==
    \A s \in Uuids :
        /\ TaskOver(s) => outcome[s] \in TerminalStates
        /\ co[s].pc = "done" => Len(removals[s]) = 1
        /\ Len(removals[s]) <= 1
        /\ Len(removals[s]) = 1 => s \notin DOMAIN in_progress

\* C2: on whatever path the task of a session ends, an unexpected abort
\* included, the registry holds no entry of the session once the task is over
C2_CleanupOnEveryPath ==
    \A s \in Uuids : TaskOver(s) => s \notin DOMAIN in_progress

\* the calls that follow the list of the results
AfterResults ==
    {"show:results", "wait", "early_stop", "additional_details", "display_info",
     "show:request", "success_message", "request", "request:returned"}

\* C3: when the search answers with no item, the session is in NoResults, the
\* no-results message was sent, and no list was rendered, no continuation
\* awaited, and neither additional_details nor request called
C3_EmptySearchEndsInNoResults ==
    \A s \in Uuids :
        found[s] = Some(<<>>) =>
            /\ outcome[s] = "NoResults"
            /\ "show:no_results" \in did[s]
            /\ did[s] \cap AfterResults = {}
            /\ co[s].pc \notin {"await_result", "await_detail", "request"}

\* a session whose search found nothing has run to its end
C3_Witness ==
    \E s \in Uuids : found[s] = Some(<<>>) /\ co[s].pc = "done"

\* C4: the list rendered for a search answer R is R itself when R has at most
\* 25 items and the first 25 items of R otherwise, in the order of R, every
\* entry keyed by its position
C4_ListIsStablePrefix ==
    \A s \in Uuids :
        (screen[s].kind = "results" /\ IsSome(found[s])) =>
            LET R == Unwrap(found[s])
                options == screen[s].menu.options
            IN  /\ Len(options) = (IF Len(R) <= 25 THEN Len(R) ELSE 25)
                /\ \A i \in 1..Len(options) :
                      /\ options[i].label = R[i].title
                      /\ options[i].value = IndexToString(i - 1)

\* the list of an answer of more than 25 items is on screen
C4_Witness ==
    \E s \in Uuids :
        /\ screen[s].kind = "results"
        /\ IsSome(found[s])
        /\ Len(Unwrap(found[s])) > 25
        /\ co[s].pc = "await_result"

\* the coroutine of s waits for a continuation
Waiting(s) == co[s].pc \in {"await_result", "await_detail"}
\* the coroutine of s takes a step
Steps(s) == co'[s] # co[s]
\* the calls of a session that has ended are those it had made, and the
\* report of the error
NoCallAfterEnd(s) ==
    co[s].pc \notin Running
        => did'[s] \subseteq did[s] \cup {"show:error", "sent:error"}

C6_ClosedChannelEndsInFailed ==
    [][\A s \in Uuids :
          /\ ( /\ Waiting(s)
               /\ chan[s] = <<>>
               /\ s \notin DOMAIN in_progress
               /\ ~(disp.pc = "remove" /\ disp.uuid = s)
               /\ Steps(s) )
             => /\ outcome'[s] = "Failed"
                /\ co'[s].pc = "report"
                /\ "request" \notin did'[s]
          /\ NoCallAfterEnd(s)
      ]_vars

\* a wait has just ended with "Channel closed unexpectedly"
C6_Witness ==
    \E s \in Uuids :
        /\ co[s].pc = "report"
        /\ co[s].err = {"channel closed"}
        /\ outcome[s] = "Failed"
        /\ "wait" \in did[s]

\* the calls that follow the early stop check when it is not taken
AfterEarlyStop ==
    {"additional_details", "display_info", "show:request", "success_message",
     "request", "request:returned"}

\* C7: when the result selected has early_stop true, the step that takes the
\* selection ends the session in EarlyStopped with the "nothing more to add"
\* message; a session in EarlyStopped has called neither additional_details
\* nor request
C7_EarlyStopEndsSession ==
    [][\A s \in Uuids :
          /\ ( /\ co[s].pc = "await_result"
               /\ chan[s] # <<>>
               /\ Head(chan[s]).values # <<>>
               /\ Head(chan[s]).values[1] \in
                     {IndexToString(i) : i \in 0..(Len(co[s].results) - 1)}
               /\ early_stop(BackendOf(co[s].kind),
                             co[s].results[Unwrap(ParseIndex(Head(chan[s]).values[1])) + 1])
               /\ Steps(s) )
             => /\ outcome'[s] = "EarlyStopped"
                /\ screen'[s] = [kind |-> "text",
                                 content |-> "Already requested - nothing more to add"]
                /\ co'[s].pc \notin Running
          /\ outcome'[s] = "EarlyStopped" => did'[s] \cap AfterEarlyStop = {}
          /\ NoCallAfterEnd(s)
      ]_vars

\* a session has ended in EarlyStopped after a selection
C7_Witness ==
    \E s \in Uuids :
        /\ outcome[s] = "EarlyStopped"
        /\ "early_stop" \in did[s]
        /\ co[s].pc = "done"

\* the detail view of s is on screen and the coroutine waits for the next event:
\* the view renders the details the coroutine holds
DetailViewUp(s) == co[s].pc = "await_detail" /\ screen[s].kind = "request"

\* C8: a submit event is accepted only when the last render showed the submit
\* action enabled: whenever the loop is left towards the request, the view on
\* screen before the step had its button enabled
C8_SubmitOnlyWhenEnabled ==
    [][\A s \in Uuids :
          (co[s].pc = "await_detail" /\ co'[s].pc = "request")
              => (screen[s].kind = "request" /\ ~screen[s].button.disabled)
      ]_vars

\* C9: in every render of the detail view the submit action is enabled if and
\* only if every detail of the collection has exactly one option
C9_SubmitEnabledIffAllResolved ==
    \A s \in Uuids :
        DetailViewUp(s) =>
            (~screen[s].button.disabled
                <=> \A i \in DOMAIN co[s].additional_details :
                        Len(co[s].additional_details[i].options) = 1)

\* the rows of the detail view of s that are select menus for the field title
Choosers(s, title) ==
    {r \in DOMAIN screen[s].rows :
        screen[s].rows[r].kind = "select" /\ screen[s].rows[r].title = title}

\* C10: in every render of the detail view, a field that had more than one
\* option when first enumerated and still has more than one is shown as a
\* select menu of its options, and a field that had exactly one option when
\* first enumerated is not shown as a select menu
C10_ChoosersAreTheOpenFields ==
    \A s \in Uuids :
        DetailViewUp(s) =>
            LET first == additional_details_of(BackendOf(co[s].kind),
                                               Unwrap(co[s].selection))
                now == co[s].additional_details
            IN  /\ DOMAIN now = DOMAIN first
                /\ \A i \in DOMAIN first :
                      /\ (Len(first[i].options) > 1 /\ Len(now[i].options) > 1)
                            => \E r \in Choosers(s, now[i].title) :
                                  /\ Len(screen[s].rows[r].menu.options)
                                        = Len(now[i].options)
                                  /\ \A k \in DOMAIN now[i].options :
                                        screen[s].rows[r].menu.options[k].label
                                            = now[i].options[k].title
                      /\ Len(first[i].options) = 1
                            => Choosers(s, first[i].title) = {}

\* a detail view with one open field shown next to a resolved one and to a
\* field that had one option from the start
C10_Witness ==
    \E s \in Uuids :
        /\ DetailViewUp(s)
        /\ LET first == additional_details_of(BackendOf(co[s].kind),
                                              Unwrap(co[s].selection))
               now == co[s].additional_details
           IN  \E i, j, k \in DOMAIN now :
                  /\ Len(first[i].options) > 1 /\ Len(now[i].options) > 1
                  /\ Len(first[j].options) > 1 /\ Len(now[j].options) = 1
                  /\ Len(first[k].options) = 1

\* the event at the head of the channel of s is a choice in the menu of a
\* detail, with an index inside the options the detail still has
ChoiceAhead(s, d, i) ==
    /\ co[s].pc = "await_detail"
    /\ chan[s] # <<>>
    /\ ~IsRequestClick(Head(chan[s]).custom_id)
    /\ DetailIndex(co[s].additional_details, Head(chan[s]).custom_id) = Some(d - 1)
    /\ SelectionIndex(Head(chan[s])) = Some(i)
    /\ i < Len(co[s].additional_details[d].options)

\* C11: a choice of index i in the menu of field F, with i inside the options
\* F still has, leaves F with exactly the option that was at index i and
\* every other field as it was; the view sent in answer keeps the submit
\* button disabled while a field shown to the user still has several options
\* (the step ends the session instead when the answer cannot be sent)
C11_ChoiceLeavesTheChosenOption ==
    [][\A s \in Uuids :
          \A d \in DOMAIN co[s].additional_details :
             \A i \in 0..MaxIndex :
                (Steps(s) /\ ChoiceAhead(s, d, i))
                   => \/ /\ co'[s].pc = "report"
                         /\ outcome'[s] = "Failed"
                      \/ /\ co'[s].pc = "await_detail"
                         /\ DOMAIN co'[s].additional_details
                               = DOMAIN co[s].additional_details
                         /\ co'[s].additional_details[d].options
                               = <<co[s].additional_details[d].options[i + 1]>>
                         /\ \A e \in DOMAIN co[s].additional_details \ {d} :
                               co'[s].additional_details[e]
                                  = co[s].additional_details[e]
                         /\ co'[s].additional_details[d].title
                               = co[s].additional_details[d].title
                         /\ screen'[s].kind = "request"
                         /\ (\E e \in DOMAIN co'[s].additional_details :
                                Len(co'[s].additional_details[e].options) > 1)
                               => screen'[s].button.disabled
      ]_vars

\* index 1 of a field of three options was chosen: the field holds the
\* second of its options, another field still has two, submit is disabled
C11_Witness ==
    \E s \in Uuids :
        /\ DetailViewUp(s)
        /\ screen[s].button.disabled
        /\ LET first == additional_details_of(BackendOf(co[s].kind),
                                              Unwrap(co[s].selection))
               now == co[s].additional_details
           IN  \E d, e \in DOMAIN now :
                  /\ Len(first[d].options) = 3
                  /\ now[d].options = <<first[d].options[2]>>
                  /\ Len(now[e].options) = 2

\* the coroutine of s holds the details of its selection
HoldsDetails(s) == co[s].pc \in {"await_detail", "request", "followup"}

\* C12: as long as the session goes on, no step gives a field more options
\* than it had, and a field that is down to one option keeps that option,
\* whatever event the step has taken
C12_ResolutionIsIrreversible ==
    [][\A s \in Uuids :
          (HoldsDetails(s) /\ co'[s].pc \in Running)
             => /\ DOMAIN co'[s].additional_details = DOMAIN co[s].additional_details
                /\ \A d \in DOMAIN co[s].additional_details :
                      /\ Len(co'[s].additional_details[d].options)
                            <= Len(co[s].additional_details[d].options)
                      /\ Len(co[s].additional_details[d].options) = 1
                            => co'[s].additional_details[d].options
                                  = co[s].additional_details[d].options
      ]_vars

\* two fields that had several options were resolved one after the other,
\* the later choice made from a list of several options, and the submit
\* event has been taken since
C12_Witness ==
    \E s \in Uuids :
        /\ co[s].pc = "request"
        /\ LET first == additional_details_of(BackendOf(co[s].kind),
                                              Unwrap(co[s].selection))
               now == co[s].additional_details
           IN  \E d, e \in DOMAIN now :
                  /\ d # e
                  /\ Len(first[d].options) > 1 /\ Len(now[d].options) = 1
                  /\ Len(first[e].options) > 1 /\ Len(now[e].options) = 1

\* the messages that tell the user how the interaction ended, as delivered
TerminalMessages ==
    {"sent:no_results", "sent:early_stop", "sent:timeout", "sent:completion",
     "sent:error"}

\* C13: a session whose task has ended in a terminal state has had exactly
\* one terminal message delivered: not none, and not two
C13_OneTerminalMessage ==
    \A s \in Uuids :
        (co[s].pc = "done" /\ outcome[s] \in TerminalStates)
            => Cardinality(did[s] \cap TerminalMessages) = 1

\* the category of an error text: the first of the four families of
\* keywords it matches, or the fallback
ErrorCategory(err_msg) ==
    IF err_msg \cap {"timeout", "timed out"} # {} THEN "timeout"
    ELSE IF err_msg \cap {"connection", "connect"} # {} THEN "connectivity"
    ELSE IF err_msg \cap {"401", "403", "unauthorized", "forbidden"} # {}
    THEN "authorization"
    ELSE IF err_msg \cap {"500", "502", "503"} # {} THEN "server"
    ELSE "generic"

\* the fixed message of each category
SanitizedMessage ==
    [timeout |-> "Request timed out. The backend server may be slow or unavailable.",
     connectivity |-> "Could not connect to the backend server. Please try again later.",
     authorization |-> "Backend authentication error. Please contact your administrator.",
     server |-> "The backend server encountered an error. Please try again later.",
     generic |-> "An error occurred while processing your request. Please try again or contact your administrator."]

\* C14: the message the error path shows for an error is the fixed message
\* of the category of the error, one of five, and nothing else of the error
C14_ErrorPathShowsSanitizedCategory ==
    [][\A s \in Uuids :
          (co[s].pc = "report" /\ Steps(s))
             => /\ screen'[s].kind = "text"
                /\ screen'[s].content = SanitizedMessage[ErrorCategory(co[s].err)]
                /\ \E c \in DOMAIN SanitizedMessage :
                      screen'[s] = [kind |-> "text", content |-> SanitizedMessage[c]]
      ]_vars

\* the authorization message is on screen after a failure
C14_Witness ==
    \E s \in Uuids :
        /\ outcome[s] = "Failed"
        /\ "sent:error" \in did[s]
        /\ screen[s] = [kind |-> "text", content |-> SanitizedMessage.authorization]

\* the request of s was called and returned an error
RequestFailed(s) ==
    /\ "request" \in did[s]
    /\ "request:returned" \notin did[s]
    /\ co[s].pc \notin {"request", "panicked"}

FirstDoes(s, tag) == tag \in did'[s] /\ tag \notin did[s]

\* C16: after a request that succeeded the completion message comes first;
\* once it is delivered the public announcement is the next and last call of
\* the session when public_followup is set, made once, and the session is
\* Completed without it when public_followup is not set; no announcement is
\* ever made without public_followup or before the completion message
C16_CompletionThenFollowup ==
    [][\A s \in Uuids :
          /\ FirstDoes(s, "sent:completion")
                => /\ "request:returned" \in did'[s]
                   /\ "show:public" \notin did'[s]
                   /\ screen'[s] = build_completion_component(Unwrap(co[s].selection))
                   /\ IF public_followup
                      THEN co'[s].pc = "followup"
                      ELSE co'[s].pc = "cleanup" /\ outcome'[s] = "Completed"
          /\ (co[s].pc = "followup" /\ Steps(s))
                => /\ FirstDoes(s, "show:public")
                   /\ co'[s].pc \in {"cleanup", "report"}
          /\ FirstDoes(s, "show:public")
                => /\ public_followup
                   /\ "sent:completion" \in did[s]
                   /\ co[s].pc = "followup"
          /\ "show:public" \in did[s]
                => did'[s] \subseteq did[s] \cup {"show:error", "sent:error"}
      ]_vars

\* a session is Completed with the completion message delivered and the
\* public announcement published after it
C16_Witness ==
    \E s \in Uuids :
        /\ outcome[s] = "Completed"
        /\ {"request:returned", "sent:completion", "show:public"} \subseteq did[s]
        /\ co[s].pc = "done"

\* the step pushes an event into the channel of s
Pushed(s) == Len(chan'[s]) > Len(chan[s])

\* C17: the channel of a session never holds more than one event, and a push
\* is accepted only while the coroutine waits for an event with nothing
\* pending: pushed at any other moment the event is refused, not queued
C17_PushFailsUnlessWaiting ==
    [][\A s \in Uuids :
          /\ Len(chan'[s]) <= 1
          /\ Pushed(s) => (Waiting(s) /\ chan[s] = <<>>)
      ]_vars

\* the uuid a component event carries, as the event loop reads it
EventUuid(ev) ==
    IF IsSome(SplitOnce(ev.custom_id))
    THEN ParseUuid(Unwrap(SplitOnce(ev.custom_id))[2])
    ELSE None

\* the titles of the select menus any backend can ask for
AllMenuTitles ==
    {"Root Folder", "Monitor", "Minimum Availability", "Quality Profile",
     "Series Type", "Use Season Folders", "Season to Monitor"}

\* the uuids of any run: 0, and those of the interactions followed
UuidRange == 0..2

\* the component events of every configuration: the events the gateway may
\* deliver are among them
AllComponentEvents ==
    {[custom_id |-> FormatCustomId("request", u), values |-> <<>>] : u \in UuidRange}
    \cup {[custom_id |-> FormatCustomId(id, u), values |-> <<IndexToString(i)>>] :
             id \in {"result"} \cup AllMenuTitles, u \in UuidRange, i \in 0..MaxIndex}

\* the component events in whose custom_id the event loop reads the uuid u
EventsOf ==
    [u \in UuidRange |-> {ev \in AllComponentEvents : EventUuid(ev) = Some(u)}]

\* C18: when the event loop handles a continuation of a registered session
\* and the push fails (the buffer is full or the receiver is gone), it
\* answers the sender with the timeout notice and goes on to remove the
\* entry; the event is in no channel and the coroutines are as they were.
\* The removal is the next thing the event loop does: it handles no other
\* event first, and afterwards the registry has no entry of the session.
\* (The handling of an event always shows in disp, or changes nothing.)
C18_FailedPushIsAnsweredAndRemoved ==
    [][/\ \A u \in DOMAIN in_progress :
             ( /\ disp.pc = "idle"
               /\ disp' # disp
               /\ ~TrySendOk(u)
               /\ \E ev \in EventsOf[u] : Continuation(ev) )
                => /\ disp' = [pc |-> "remove", uuid |-> u, reply |-> "timeout"]
                   /\ co' = co
                   /\ chan' = chan
                   /\ screen' = screen
       /\ disp.pc = "remove"
             => /\ next_uuid' = next_uuid
                /\ \A s \in Uuids : ~Pushed(s)
                /\ disp' # disp
                      => /\ disp' = [pc |-> "idle", uuid |-> 0, reply |-> "timeout"]
                         /\ disp.uuid \notin DOMAIN in_progress'
                         /\ co' = co
      ]_vars

\* the event loop has answered a failed push with the timeout notice and
\* taken the entry of the session out of the registry
C18_Witness ==
    \E s \in Uuids :
        /\ disp = [pc |-> "idle", uuid |-> 0, reply |-> "timeout"]
        /\ removals[s] = <<"dispatcher">>
        /\ s \notin DOMAIN in_progress

\* C19: when the event loop handles a continuation whose uuid has no entry in
\* the registry, it answers the sender with the timeout notice and does
\* nothing else: no channel gets the event, no coroutine moves, no entry is
\* made and none is removed
C19_UnroutableContinuationIsAnswered ==
    [][\A u \in AnyUuid \ DOMAIN in_progress :
          ( /\ disp.pc = "idle"
            /\ disp' # disp
            /\ \E ev \in EventsOf[u] : Continuation(ev) )
             => /\ disp' = [pc |-> "idle", uuid |-> 0, reply |-> "timeout"]
                /\ UNCHANGED <<in_progress, chan, co, next_uuid, screen, did,
                               outcome, removals>>
      ]_vars

\* a continuation was answered with the timeout notice before any session
\* existed
C19_Witness ==
    /\ disp = [pc |-> "idle", uuid |-> 0, reply |-> "timeout"]
    /\ next_uuid = 1
    /\ DOMAIN in_progress = {}

\* C20: a sweep of the cleanup task takes out of the registry the entries
\* older than 300 s and no other: every entry of 300 s or less is still there
\* afterwards, as it was, and nothing older is
C20_SweepRemovesExactlyTheExpired ==
    [][Sweep =>
          /\ DOMAIN in_progress' = {u \in DOMAIN in_progress : in_progress[u] <= 300}
          /\ \A u \in DOMAIN in_progress' : in_progress'[u] = in_progress[u]
          /\ \A u \in Uuids :
                removals'[u] # removals[u]
                   <=> (u \in DOMAIN in_progress /\ in_progress[u] > 300)
      ]_vars

\* a sweep has taken out the entry of one interaction while the registry
\* keeps an entry that is exactly 300 s old
C20_Witness ==
    \E s \in Uuids :
        /\ removals[s] = <<"reaper">>
        /\ s \notin DOMAIN in_progress
        /\ \E u \in DOMAIN in_progress : in_progress[u] = 300

\* C21: the eviction of an entry by the cleanup task is silent.  The sweep
\* itself sends nothing and changes no view; and the coroutine of a session
\* whose entry the cleanup task has removed shows the user nothing on account
\* of it: the closing of its channel is not reported as an error
C21_EvictionIsSilent ==
    [][\A s \in Uuids :
          /\ Sweep => (screen'[s] = screen[s] /\ did'[s] = did[s])
          /\ ( /\ removals[s] = <<"reaper">>
               /\ co[s].pc = "report"
               /\ co[s].err = ChannelClosedError
               /\ Steps(s) )
                => /\ screen'[s] = screen[s]
                   /\ "sent:error" \notin did'[s]
      ]_vars

\* the event comes from a component that was rendered for the interaction s:
\* its custom_id is the one that was formatted for s
RenderedFor(ev, s) ==
    \E id \in {"request", "result"} \cup AllMenuTitles :
        ev.custom_id = FormatCustomId(id, s)

\* C22: with two interactions at their detail views, a continuation goes to
\* the interaction its custom_id was rendered for and to no other: every
\* event in the channel of s comes from a component of s, and a push into
\* the channel of s leaves the other channels and every coroutine alone.  A
\* choice taken by the coroutine of s changes nothing of the other
\* interaction, and in s it leaves every field alone whose title is not the
\* one in the custom_id of the event
C22_ContinuationsAreRouted ==
    [][\A s \in Uuids :
          /\ \A i \in DOMAIN chan'[s] : RenderedFor(chan'[s][i], s)
          /\ Pushed(s)
                => /\ \A t \in Uuids \ {s} : chan'[t] = chan[t]
                   /\ co' = co
          /\ (co[s].pc = "await_detail" /\ Steps(s))
                => /\ \A t \in Uuids \ {s} :
                         /\ co'[t] = co[t]
                         /\ chan'[t] = chan[t]
                         /\ screen'[t] = screen[t]
                         /\ outcome'[t] = outcome[t]
                   /\ (chan[s] # <<>> /\ co'[s].pc = "await_detail")
                         => \A d \in DOMAIN co[s].additional_details :
                               Head(chan[s]).custom_id
                                     # FormatCustomId(co[s].additional_details[d].title, s)
                                  => co'[s].additional_details[d]
                                        = co[s].additional_details[d]
      ]_vars

\* the first interaction has chosen its quality profile and still has its
\* root folder to choose, while an event of the second interaction waits in
\* the channel of the second, whose choices are as they were
C22_Witness ==
    /\ DOMAIN in_progress = {1, 2}
    /\ co[1].pc = "await_detail"
    /\ Len(co[1].additional_details[1].options) = 2
    /\ co[1].additional_details[4].options = <<Opt("SD", "Integer")>>
    /\ co[2].pc = "await_detail"
    /\ co[2].additional_details[1].options = <<Opt("/films", "Integer")>>
    /\ co[2].additional_details[4].options = <<Opt("HD", "Integer")>>
    /\ chan[2] # <<>>
    /\ RenderedFor(Head(chan[2]), 2)

\* the event the coroutine of s is about to take is an invalid continuation:
\* it carries no index, or one outside the list it is an index into, or its
\* custom_id names no field of the detail collection
InvalidAhead(s) ==
    /\ Waiting(s)
    /\ chan[s] # <<>>
    /\ LET next == Head(chan[s])
           idx == SelectionIndex(next)
           details == co[s].additional_details
       IN  IF co[s].pc = "await_result"
           THEN ~IsSome(idx) \/ Unwrap(idx) >= Len(co[s].results)
           ELSE /\ ~IsRequestClick(next.custom_id)
                /\ \/ ~IsSome(idx)
                   \/ ~IsSome(DetailIndex(details, next.custom_id))
                   \/ Unwrap(idx) >= Len(details[Unwrap(DetailIndex(
                                             details, next.custom_id)) + 1].options)

\* C23: an invalid continuation never crashes the session.  The step that
\* takes it leaves the results and the detail collection as they were and
\* the coroutine in the wait it was in (or, when the view it sends again is
\* refused by Discord, ends the session in Failed through the error path)
C23_InvalidContinuationIsNoise ==
    [][\A s \in Uuids :
          (InvalidAhead(s) /\ Steps(s))
             => \/ /\ co'[s].pc = co[s].pc
                   /\ co'[s].results = co[s].results
                   /\ co'[s].additional_details = co[s].additional_details
                \/ /\ co'[s].pc = "report"
                   /\ outcome'[s] = "Failed"
      ]_vars

\* the details backend.additional_details returns for the selection of s
Enumerated(s) ==
    additional_details_of(BackendOf(co[s].kind), Unwrap(co[s].selection))

\* C24: whenever the coroutine is about to call backend.request, every detail
\* it passes has exactly one option, the details are the fields that
\* additional_details returned for the selection, in their order, each with
\* an option that was among those returned, and the item passed is the one
\* the user selected: a result of the search, the one the detail view shows
C24_RequestGetsResolvedDetails ==
    \A s \in Uuids :
        co[s].pc = "request"
            => /\ \A d \in DOMAIN co[s].additional_details :
                     Len(co[s].additional_details[d].options) = 1
               /\ DOMAIN co[s].additional_details = DOMAIN Enumerated(s)
               /\ \A d \in DOMAIN co[s].additional_details :
                     /\ co[s].additional_details[d].title = Enumerated(s)[d].title
                     /\ co[s].additional_details[d].metadata
                           = Enumerated(s)[d].metadata
                     /\ Range(co[s].additional_details[d].options)
                           \subseteq Range(Enumerated(s)[d].options)
               /\ IsSome(co[s].selection)
               /\ Unwrap(co[s].selection) \in Range(Unwrap(found[s]))
               /\ screen[s].kind = "request"
               /\ screen[s].display_info = display_info_of(Unwrap(co[s].selection))

\* C25: no detail without options exists: every detail that
\* additional_details returns for the item a session selected, and every
\* detail a coroutine holds, has at least one option
C25_NoDetailWithoutOptions ==
    \A s \in Uuids :
        HoldsDetails(s)
            => /\ \A d \in DOMAIN Enumerated(s) :
                     Len(Enumerated(s)[d].options) >= 1
               /\ \A d \in DOMAIN co[s].additional_details :
                     Len(co[s].additional_details[d].options) >= 1

\* the registry after the step is the registry before it without the entry
\* of uuid: nothing when uuid has no entry, and never the entry of another
RemovesOnly(uuid) ==
    /\ DOMAIN in_progress' = DOMAIN in_progress \ {uuid}
    /\ \A u \in DOMAIN in_progress' : in_progress'[u] = in_progress[u]
    /\ uuid \notin DOMAIN in_progress => in_progress' = in_progress

\* C26: the removal of an entry is idempotent and safe on every path, however
\* the cleanup of a task, the removal by the event loop after a failed push
\* and the sweeps of the cleanup task follow one another: each of the two
\* removals takes out the entry of its own uuid and no other, leaves the
\* registry as it is when that entry is gone already, and never fails (the
\* task ends, the event loop goes back to its events)
C26_RemovalIsIdempotent ==
    [][/\ \A s \in Uuids :
             (co[s].pc = "cleanup" /\ Steps(s))
                => /\ RemovesOnly(s)
                   /\ co'[s].pc = "done"
       /\ (disp.pc = "remove" /\ disp' # disp)
             => /\ RemovesOnly(disp.uuid)
                /\ disp'.pc = "idle"
      ]_vars

\* the cleanup task evicted the entry of the first interaction, the task of
\* that interaction has run its own removal to the end, the event loop has
\* run the removal that follows a failed push, and the entry of another
\* interaction is still in the registry
C26_Witness ==
    /\ removals[1] = <<"reaper">>
    /\ co[1].pc = "done"
    /\ disp = [pc |-> "idle", uuid |-> 0, reply |-> "timeout"]
    /\ 1 \notin DOMAIN in_progress
    /\ 2 \in DOMAIN in_progress

\* C27: the lock of the registry is never held across a suspension point: in
\* every state, where the event loop is parked on the gateway or on a call to
\* Discord, the cleanup task on its ticker, and every coroutine on its
\* channel, its timer, a backend call or a call to Discord, nobody holds the
\* guard of the map
C27_NoGuardAcrossAwait == map_guard = "none"

\* the event loop is parked in update_timeout after a failed push, between
\* its lookup and its removal; the cleanup task, back on its ticker, has
\* evicted the entry meanwhile; the coroutine is parked on its channel
C27_Witness ==
    \E s \in Uuids :
        /\ disp = [pc |-> "remove", uuid |-> s, reply |-> "timeout"]
        /\ removals[s] = <<"reaper">>
        /\ Waiting(s)
        /\ map_guard = "none"

\* C28: the sending half of the channel of a session outlives the session:
\* as long as the coroutine is inside run_interaction a Sender of its channel
\* exists (the one in the registry, or a clone in the hands of the event
\* loop), and no wait of a coroutine ends with the channel closed
C28_SenderOutlivesSession ==
    \A s \in Uuids :
        /\ RxAlive(s) => ~NoSender(s)
        /\ ~(co[s].pc = "report" /\ co[s].err = ChannelClosedError)

\* the coroutine of s is inside run_interaction and not in a wait for input
Busy(s) == co[s].pc \in Running /\ ~Waiting(s)

\* C29: the eviction of an entry interrupts no coroutine that is busy.  A
\* sweep changes nothing of any coroutine; and a coroutine that is busy when
\* its entry has been evicted ends the call it is in as the call ends
\* without an eviction: the acknowledgement goes on to the search or fails,
\* the search goes on to the result wait, to NoResults or fails, the request
\* goes on to the completion (Completed, or the public message first) or
\* fails, and the public message ends in Completed or Failed
C29_EvictionLeavesCallsAlone ==
    [][/\ Sweep => /\ co' = co
                   /\ chan' = chan
                   /\ waited' = waited
                   /\ outcome' = outcome
                   /\ screen' = screen
                   /\ did' = did
       /\ \A s \in Uuids :
             (removals[s] = <<"reaper">> /\ Busy(s) /\ Steps(s))
                => /\ co[s].pc = "start"
                         => \/ co'[s].pc = "search" /\ outcome'[s] = "none"
                            \/ co'[s].pc = "report" /\ outcome'[s] = "Failed"
                   /\ co[s].pc = "search"
                         => \/ co'[s].pc = "await_result" /\ outcome'[s] = "none"
                            \/ /\ co'[s].pc \in {"cleanup", "report"}
                               /\ outcome'[s] = "NoResults"
                            \/ co'[s].pc = "report" /\ outcome'[s] = "Failed"
                   /\ co[s].pc = "request"
                         => \/ co'[s].pc = "cleanup" /\ outcome'[s] = "Completed"
                            \/ co'[s].pc = "followup" /\ outcome'[s] = "none"
                            \/ co'[s].pc = "report" /\ outcome'[s] = "Failed"
                   /\ co[s].pc = "followup"
                         => \/ co'[s].pc = "cleanup" /\ outcome'[s] = "Completed"
                            \/ co'[s].pc = "report" /\ outcome'[s] = "Failed"
      ]_vars

\* the detail view of s as build_request_component renders it from what the
\* coroutine of s holds
Rendered(s) ==
    build_request_component(s, display_info_of(Unwrap(co[s].selection)),
                            co[s].additional_details,
                            co[s].user_selectable_fields)

\* C30: the detail view is a function of the details held, the fields fixed
\* at the first rendering, the display info and the uuid.  The view up while
\* the coroutine waits for a detail is the rendering of what it holds; and
\* the rendering made for the click on the button, which follows the one
\* before it with no choice in between, sends the view that is up (the same
\* choosers, the same completed choices, the same state of the button) and
\* changes nothing of what the coroutine holds
C30_RenderingIsAFunction ==
    [][\A s \in Uuids :
          /\ DetailViewUp(s)' => screen'[s] = Rendered(s)'
          /\ (DetailViewUp(s) /\ co'[s].pc = "request")
                => /\ screen'[s] = screen[s]
                   /\ screen'[s] = Rendered(s)'
                   /\ co'[s].additional_details = co[s].additional_details
                   /\ co'[s].user_selectable_fields = co[s].user_selectable_fields
                   /\ co'[s].selection = co[s].selection
                   /\ co'[s].results = co[s].results
      ]_vars

\* the button was clicked on a view with a completed choice and a fixed
\* field left out, and the view sent for the click is up
C30_Witness ==
    \E s \in Uuids :
        /\ co[s].pc = "request"
        /\ screen[s].kind = "request"
        /\ \E i \in DOMAIN screen[s].rows : screen[s].rows[i].kind = "text"
        /\ Len(screen[s].rows) < Len(co[s].additional_details)
        /\ ~screen[s].button.disabled

\* the coroutine of s took a message out of its channel
Took(s) == Len(chan'[s]) < Len(chan[s])

\* C31: the detail loop.  A step of the coroutine in the wait for a detail
\* either takes an event that is not the click on the button, sends the view
\* rendered from the details it then holds and waits again; or takes the
\* click and goes on to the request; or ends the session, without a call of
\* request, by the timeout, by the closed channel, or because Discord
\* refused the view.  It ends in no other way
C31_DetailLoopExits ==
    [][\A s \in Uuids :
          (co[s].pc = "await_detail" /\ (Steps(s) \/ Took(s)))
             => \/ /\ co'[s].pc = "await_detail"
                   /\ Took(s)
                   /\ ~IsRequestClick(Head(chan[s]).custom_id)
                   /\ screen'[s] = Rendered(s)'
                   /\ outcome'[s] = "none"
                \/ /\ co'[s].pc = "request"
                   /\ Took(s)
                   /\ IsRequestClick(Head(chan[s]).custom_id)
                   /\ outcome'[s] = "none"
                \/ /\ co'[s].pc = "report"
                   /\ outcome'[s] = "TimedOut"
                   /\ ~Took(s)
                   /\ "request" \notin did'[s]
                \/ /\ co'[s].pc = "report"
                   /\ outcome'[s] = "Failed"
                   /\ co'[s].err = ChannelClosedError
                   /\ ~Took(s)
                   /\ "request" \notin did'[s]
                \/ /\ co'[s].pc = "report"
                   /\ outcome'[s] = "Failed"
                   /\ Took(s)
                   /\ "request" \notin did'[s]
      ]_vars

\* C32: the user-selectable fields are those of the details as first
\* enumerated.  While the coroutine of s holds details, the set it holds is
\* the one computed from what additional_details returned for the selection;
\* and in the detail view that is up, every field of that set that holds
\* one option has a row with its title and the title of that option
C32_SelectableFieldsAreFixed ==
    \A s \in Uuids :
        HoldsDetails(s)
           => /\ co[s].user_selectable_fields = UserSelectableFields(Enumerated(s))
              /\ (screen[s].kind = "request")
                    => \A i \in DOMAIN co[s].additional_details :
                          LET detail == co[s].additional_details[i]
                          IN  (/\ IsSome(Enumerated(s)[i].metadata)
                               /\ Len(Enumerated(s)[i].options) > 1
                               /\ Len(detail.options) = 1)
                                 => \E r \in DOMAIN screen[s].rows :
                                       /\ screen[s].rows[r].kind = "text"
                                       /\ screen[s].rows[r].title = detail.title
                                       /\ screen[s].rows[r].selection =
                                             detail.options[1].title

\* a detail view is up that shows a completed choice next to a menu still
\* to be chosen from
C32_Witness ==
    \E s \in Uuids :
        /\ DetailViewUp(s)
        /\ \E r \in DOMAIN screen[s].rows : screen[s].rows[r].kind = "text"
        /\ \E r \in DOMAIN screen[s].rows : screen[s].rows[r].kind = "select"

\* C33: no session waits forever.  Under the scheduling of the runtime the
\* coroutine of every interaction, from its first wait on, reaches a
\* terminal state, whether events go on arriving or not
C33_EverySessionEnds ==
    \A s \in Followed : <>(outcome[s] \in TerminalStates)

\* the search of s answered with exactly one item
OneFound(s) == IsSome(found[s]) /\ Len(Unwrap(found[s])) = 1

\* C34: a search that finds one item does not select it.  The step that
\* ends such a search shows a list with one entry, of value "0", holds no
\* selection, has asked the backend nothing about the item, and leaves the
\* coroutine in the wait for the choice (or in the error path, when Discord
\* refused the list); and the step out of that wait that goes on with the
\* item takes an event that carries the value "0"
C34_OneResultIsStillChosen ==
    [][\A s \in Uuids :
          /\ (co[s].pc = "search" /\ Steps(s) /\ OneFound(s)')
                => /\ co'[s].pc \in {"await_result", "report"}
                   /\ co'[s].selection = None
                   /\ "early_stop" \notin did'[s]
                   /\ "additional_details" \notin did'[s]
                   /\ Len(screen'[s].menu.options) = 1
                   /\ screen'[s].menu.options[1].value = IndexToString(0)
                   /\ co'[s].pc = "await_result" => Len(co'[s].results) = 1
          /\ (co[s].pc = "await_result" /\ OneFound(s))
                => /\ co[s].selection = None
                   /\ FirstDoes(s, "early_stop")
                         => /\ Took(s)
                            /\ Head(chan[s]).values = <<IndexToString(0)>>
                   /\ co'[s].pc = "await_detail"
                         => /\ FirstDoes(s, "early_stop")
                            /\ co'[s].selection = Some(co[s].results[1])
      ]_vars

\* the only item of a search has been chosen and its details are asked for
C34_Witness ==
    \E s \in Uuids :
        /\ OneFound(s)
        /\ co[s].pc = "await_detail"
        /\ co[s].selection = Some(Unwrap(found[s])[1])

\* the event the coroutine of s is about to take out of its first wait
\* carries an index into the list that is shown
PickAhead(s) ==
    /\ co[s].pc = "await_result"
    /\ chan[s] # <<>>
    /\ IsSome(SelectionIndex(Head(chan[s])))
    /\ Unwrap(SelectionIndex(Head(chan[s]))) < Len(co[s].results)

\* the position in the list of the choice the coroutine of s is about to take
PickedAt(s) == Unwrap(SelectionIndex(Head(chan[s]))) + 1

\* C35: the item chosen is the item shown.  The step that takes the choice
\* of index i asks early_stop about the item whose title the list shows at
\* position i, which is the item at that position of the truncated answer of
\* the search; when it goes on, the details are those additional_details
\* returns for that item, the view is headed by its display info and the
\* item is held as the selection.  The selection stays the same as long as
\* details are held, and the request is made for it: the completion shown
\* is the one of the selection
C35_ChosenItemIsTheOneShown ==
    [][\A s \in Uuids :
          /\ (PickAhead(s) /\ Took(s))
                => LET item == TruncateResults(Unwrap(found[s]))[PickedAt(s)]
                       backend == BackendOf(co[s].kind)
                   IN  /\ screen[s].menu.options[PickedAt(s)].label = item.title
                       /\ screen[s].menu.options[PickedAt(s)].value
                             = Head(chan[s]).values[1]
                       /\ FirstDoes(s, "early_stop")
                       /\ outcome'[s] = "EarlyStopped" <=> early_stop(backend, item)
                       /\ co'[s].pc = "await_detail"
                             => /\ co'[s].selection = Some(item)
                                /\ co'[s].additional_details
                                      = additional_details_of(backend, item)
                                /\ screen'[s].display_info = display_info_of(item)
          /\ (HoldsDetails(s) /\ HoldsDetails(s)')
                => co'[s].selection = co[s].selection
          /\ (co[s].pc = "request" /\ FirstDoes(s, "show:completion"))
                => screen'[s] = build_completion_component(Unwrap(co[s].selection))
      ]_vars

\* the second of two items was chosen and the request for it is under way
C35_Witness ==
    \E s \in Uuids :
        /\ IsSome(found[s])
        /\ Len(Unwrap(found[s])) = 2
        /\ co[s].pc = "request"
        /\ co[s].selection = Some(Unwrap(found[s])[2])

\* what a choice may not touch of a field
Frame(detail) ==
    [title |-> detail.title, metadata |-> detail.metadata,
     field_type |-> detail.field_type]

\* C36: a choice touches the options of the field it names and nothing
\* else.  While the coroutine of s holds details, a step keeps the number
\* and the order of the fields and the title, the metadata key and the type
\* of each; the options of a field change only by the step that takes a
\* select event whose custom_id carries the title of that field; and a
\* field that additional_details returned with exactly one option is held,
\* up to and in the request, as it was returned
C36_ChoiceTouchesOneField ==
    [][\A s \in Uuids :
          /\ (Steps(s) /\ HoldsDetails(s) /\ HoldsDetails(s)')
                => /\ DOMAIN co'[s].additional_details
                         = DOMAIN co[s].additional_details
                   /\ \A d \in DOMAIN co[s].additional_details :
                         /\ Frame(co'[s].additional_details[d])
                               = Frame(co[s].additional_details[d])
                         /\ co'[s].additional_details[d].options
                               # co[s].additional_details[d].options
                               => /\ Took(s)
                                  /\ ~IsRequestClick(Head(chan[s]).custom_id)
                                  /\ Head(chan[s]).custom_id[1]
                                        = co[s].additional_details[d].title
          /\ (Steps(s) /\ HoldsDetails(s)')
                => LET enumerated ==
                           additional_details_of(BackendOf(co'[s].kind),
                                                 Unwrap(co'[s].selection))
                   IN  \A d \in DOMAIN enumerated :
                          Len(enumerated[d].options) = 1
                             => co'[s].additional_details[d] = enumerated[d]
      ]_vars

\* the request is under way with a field the user reduced among fields that
\* were returned with one option
C36_Witness ==
    \E s \in Uuids :
        /\ co[s].pc = "request"
        /\ \E d \in DOMAIN Enumerated(s) :
              /\ Len(Enumerated(s)[d].options) > 1
              /\ Len(co[s].additional_details[d].options) = 1
        /\ \E d \in DOMAIN Enumerated(s) :
              /\ Len(Enumerated(s)[d].options) = 1
              /\ co[s].additional_details[d] = Enumerated(s)[d]

\* C37: every entry is removed in the end.  A sweep takes out every entry
\* that is older than the timeout; and with the clock and the cleanup task
\* going on, the entry of every interaction is gone for good from some
\* point on, whether its task ran its cleanup, panicked, or hangs in a call
C37_EveryEntryIsRemoved ==
    /\ [][Sweep => \A u \in DOMAIN in_progress :
                      in_progress[u] > INTERACTION_TIMEOUT
                         => u \notin DOMAIN in_progress']_vars
    /\ \A s \in Followed : <>[](s \notin DOMAIN in_progress)

\* the task panicked, so that its cleanup never ran, and the cleanup task
\* has taken out its entry
C37_Witness ==
    \E s \in Uuids :
        /\ co[s].pc = "panicked"
        /\ removals[s] = <<"reaper">>
        /\ s \notin DOMAIN in_progress

\* the entry of s is out of the registry and the event loop holds no clone
\* of its sender, while the coroutine of s is still inside run_interaction
Orphaned(s) ==
    /\ RxAlive(s)
    /\ s \notin DOMAIN in_progress
    /\ ~(disp.pc = "remove" /\ disp.uuid = s)

\* C38: a running session whose entry was removed has lost its only sender.
\* It stays without one; nothing is pushed into its channel any more; a wait
\* of its coroutine first takes the event that is still in the buffer, and
\* with the buffer empty ends at once with the closed channel, in Failed
\* and never in TimedOut; and the event loop answers every continuation
\* that carries its uuid with the timeout notice and does nothing else
C38_RemovalClosesTheChannel ==
    [][\A s \in Uuids :
          Orphaned(s)
             => /\ RxAlive(s)' => Orphaned(s)'
                /\ ~Pushed(s)
                /\ outcome'[s] # "TimedOut"
                /\ (Waiting(s) /\ Steps(s))
                      => IF chan[s] = <<>>
                         THEN /\ co'[s].pc = "report"
                              /\ co'[s].err = ChannelClosedError
                              /\ outcome'[s] = "Failed"
                         ELSE Took(s)
                /\ ( /\ disp.pc = "idle"
                     /\ disp' # disp
                     /\ \E ev \in EventsOf[s] : Continuation(ev) )
                      => /\ disp' = [pc |-> "idle", uuid |-> 0, reply |-> "timeout"]
                         /\ UNCHANGED <<in_progress, chan, co, screen, removals>>
      ]_vars

\* the event loop removed the entry of a busy session after a failed push;
\* the coroutine took the event that was in the buffer and its next wait
\* ended with the closed channel
C38_Witness ==
    \E s \in Uuids :
        /\ removals[s] = <<"dispatcher">>
        /\ co[s].pc = "report"
        /\ co[s].err = ChannelClosedError
        /\ outcome[s] = "Failed"
        /\ "show:request" \in did[s]

\* the metadata keys of the fields Sonarr::new prepares for a new series
NewSeriesKeys ==
    {"sonarr:root_folder", "sonarr:monitor", "sonarr:series_type",
     "sonarr:quality_profile", "sonarr:season_folder"}

\* the season numbers of the options of a season field
SeasonNumbers(options) ==
    [i \in 1..Len(options) |-> Unwrap(Position(options[i].title, SeasonTitles))]

\* C39: for Sonarr, early_stop and additional_details fit the request.  A
\* series that the coroutine of s holds details for was not stopped early,
\* and what additional_details returns for it lets request take its
\* selection: every field has an option; for a new series the fields are
\* the five prepared at connect time; for a series that has an id it is one
\* season field, with at least one and at most 25 options in descending
\* season number
C39_SeriesDetailsFitTheRequest ==
    \A s \in Uuids :
        (HoldsDetails(s) /\ co[s].kind = "series")
           => LET media == Unwrap(co[s].selection)
                  details == Enumerated(s)
              IN  /\ ~early_stop(BackendOf("series"), media)
                  /\ \A d \in DOMAIN details : Len(details[d].options) >= 1
                  /\ IF IsSome(media.id)
                     THEN /\ Len(details) = 1
                          /\ details[1].metadata = Some("sonarr:season")
                          /\ Len(details[1].options) <= MAX_DROPDOWN_OPTIONS
                          /\ \A i, j \in DOMAIN details[1].options :
                                i < j => SeasonNumbers(details[1].options)[i]
                                            > SeasonNumbers(details[1].options)[j]
                     ELSE {Unwrap(details[d].metadata) : d \in DOMAIN details}
                             = NewSeriesKeys
                          /\ Len(details) = 5

\* C40: a continuation in whose custom_id the event loop reads no uuid is
\* dropped.  The handling of such an event changes no entry of the registry,
\* pushes into no channel, moves no coroutine, changes no view and answers
\* nothing; the event loop stays idle.  This holds for the event of a select
\* menu whose title holds a ':' as well.  (The handling of an event always
\* shows in disp, or changes nothing.)
C40_MalformedContinuationIsDropped ==
    [][( /\ disp.pc = "idle"
         /\ disp' # disp
         /\ \E ev \in MalformedEvents : Continuation(ev) )
          => /\ disp' = [pc |-> "idle", uuid |-> 0, reply |-> "none"]
             /\ UNCHANGED <<in_progress, chan, co, screen, did, outcome,
                            removals, next_uuid, waited>>
      ]_vars

\* the event loop has removed the entries of both interactions, each after
\* a failed push answered with the timeout notice, and has since handled an
\* event it answered nothing to: with no entry left that event was a
\* malformed one
C40_Witness ==
    /\ DOMAIN in_progress = {}
    /\ \A s \in RoutingSessions : removals[s] = <<"dispatcher">>
    /\ disp = [pc |-> "idle", uuid |-> 0, reply |-> "none"]

====
